---- MODULE Spec2Model ----
(***************************************************************************)
(* Spline TCP congestion control (src/net/ipv4/tcp_spline.c): the          *)
(* per-connection state block struct scc, the host fields the module reads *)
(* and writes, and the registered entry points init, cong_control,         *)
(* set_state, cwnd_event, undo_cwnd and ssthresh.                          *)
(*                                                                         *)
(* The C code computes in u32 and u64.  A machine word is modelled as a    *)
(* tuple of five 15-bit limbs, least significant first (75 bits), and is   *)
(* cut to 32 or 64 bits wherever the C type of the expression cuts it.     *)
(***************************************************************************)
EXTENDS Integers, Sequences, FiniteSets, TLC

----------------------------------------------------------------------------
(* Machine words                                                           *)

\* Statements in sequence: the first has run to its end before the next starts.
Then(v, Stmt(_)) == CHOOSE r \in {Stmt(x) : x \in {v}} : TRUE

LimbBase == 2^15

Z == <<0, 0, 0, 0, 0>>

\* The word of a number 0 .. 2^31 - 1.
N(x) == <<x % LimbBase, (x \div LimbBase) % LimbBase, x \div (LimbBase * LimbBase), 0, 0>>

\* Carry propagation over five column sums; the carry out of limb 5 is dropped.
Norm(c1, c2, c3, c4, c5) ==
    LET k1 == c1 \div LimbBase
        s2 == c2 + k1
        k2 == s2 \div LimbBase
        s3 == c3 + k2
        k3 == s3 \div LimbBase
        s4 == c4 + k3
        k4 == s4 \div LimbBase
        s5 == c5 + k4
    IN  <<c1 % LimbBase, s2 % LimbBase, s3 % LimbBase, s4 % LimbBase, s5 % LimbBase>>

Small(a) == a[3] < 2 /\ a[4] = 0 /\ a[5] = 0

\* The number of a word below 2^31.
V(a) == a[1] + a[2] * LimbBase + a[3] * LimbBase * LimbBase

Add(a, b) == Norm(a[1] + b[1], a[2] + b[2], a[3] + b[3], a[4] + b[4], a[5] + b[5])

\* a - b modulo 2^75 (the borrow out of limb 5 is dropped).
Sub(a, b) ==
    Norm(a[1] - b[1], a[2] - b[2], a[3] - b[3], a[4] - b[4], a[5] - b[5])

Mul(a, b) ==
    IF a[2] = 0 /\ a[3] = 0 /\ a[4] = 0 /\ a[5] = 0
       /\ b[2] = 0 /\ b[3] = 0 /\ b[4] = 0 /\ b[5] = 0
    THEN N(a[1] * b[1])
    ELSE
    LET p11 == a[1] * b[1]
        p12 == a[1] * b[2]
        p13 == a[1] * b[3]
        p14 == a[1] * b[4]
        p15 == a[1] * b[5]
        p21 == a[2] * b[1]
        p22 == a[2] * b[2]
        p23 == a[2] * b[3]
        p24 == a[2] * b[4]
        p31 == a[3] * b[1]
        p32 == a[3] * b[2]
        p33 == a[3] * b[3]
        p41 == a[4] * b[1]
        p42 == a[4] * b[2]
        p51 == a[5] * b[1]
        L(p) == p % LimbBase
        H(p) == p \div LimbBase
    IN  Norm(L(p11),
             L(p12) + L(p21) + H(p11),
             L(p13) + L(p22) + L(p31) + H(p12) + H(p21),
             L(p14) + L(p23) + L(p32) + L(p41) + H(p13) + H(p22) + H(p31),
             L(p15) + L(p24) + L(p33) + L(p42) + L(p51)
                + H(p14) + H(p23) + H(p32) + H(p41))

Lt(a, b) ==
    IF a[5] # b[5] THEN a[5] < b[5]
    ELSE IF a[4] # b[4] THEN a[4] < b[4]
    ELSE IF a[3] # b[3] THEN a[3] < b[3]
    ELSE IF a[2] # b[2] THEN a[2] < b[2]
    ELSE a[1] < b[1]

Le(a, b) == ~Lt(b, a)
Gt(a, b) == Lt(b, a)
Ge(a, b) == ~Lt(a, b)
MaxW(a, b) == IF Lt(a, b) THEN b ELSE a
MinW(a, b) == IF Lt(b, a) THEN b ELSE a

\* The cut of an expression to its C type.
U32(a) == <<a[1], a[2], a[3] % 4, 0, 0>>
U64(a) == <<a[1], a[2], a[3], a[4], a[5] % 16>>
U16(x) == x % 65536

Limb(a, i) == IF i >= 1 /\ i <= 5 THEN a[i] ELSE 0

\* a >> k
Shr(a, k) ==
    LET q == k \div 15
        r == k % 15
        lo == 2^r
        hi == 2^(15 - r)
        F(i) == (Limb(a, i + q) \div lo) + (Limb(a, i + q + 1) % lo) * hi
    IN  <<F(1), F(2), F(3), F(4), F(5)>>

\* a << k modulo 2^75
Shl(a, k) ==
    LET q == k \div 15
        r == k % 15
        lo == 2^r
        hi == 2^(15 - r)
        F(i) == (Limb(a, i - q) % hi) * lo + (Limb(a, i - q - 1) \div hi)
    IN  <<F(1), F(2), F(3), F(4), F(5)>>

\* Bit k (0 = least significant) of a.
Bit(a, k) == (a[(k \div 15) + 1] \div 2^(k % 15)) % 2

\* One limb of the quotient of long division by a divisor below 2^15.
RECURSIVE DivLimbs(_, _, _, _)
DivLimbs(a, d, i, r) ==
    IF i = 0 THEN <<>>
    ELSE LET cur == r * LimbBase + a[i]
         IN  Append(DivLimbs(a, d, i - 1, cur % d), cur \div d)

DivShort(a, d) == DivLimbs(a, d, 5, 0)

\* The number of bits of a limb.
RECURSIVE BitLen(_)
BitLen(x) == IF x = 0 THEN 0 ELSE 1 + BitLen(x \div 2)

TopLimb(a) ==
    IF a[5] # 0 THEN 5 ELSE IF a[4] # 0 THEN 4 ELSE IF a[3] # 0 THEN 3
    ELSE IF a[2] # 0 THEN 2 ELSE 1

\* Quotient q and remainder rem of a limb step, raised until rem < d.
RECURSIVE DivFix(_, _, _)
DivFix(rem, d, q) == IF Lt(rem, d) THEN <<q, rem>> ELSE DivFix(Sub(rem, d), d, q + 1)

\* cur / d and cur % d for cur < d * 2^15.  dt is the leading 15 bits of d
\* and sh the number of bits below them: the estimate from the leading bits
\* of cur and dt + 1 is never above the quotient.
DivStep(cur, d, sh, dt) ==
    LET q0 == V(Shr(cur, sh)) \div (dt + 1)
    IN  DivFix(Sub(cur, Mul(d, N(q0))), d, q0)

\* Long division by a divisor of 2^15 or more, limb i down to 1, with the
\* remainder r so far; the quotient's limbs, least significant first.
RECURSIVE DivLong(_, _, _, _, _, _)
DivLong(a, d, sh, dt, i, r) ==
    IF i = 0 THEN <<>>
    ELSE Then(DivStep(<<a[i], r[1], r[2], r[3], r[4]>>, d, sh, dt),
              LAMBDA s : Append(DivLong(a, d, sh, dt, i - 1, s[2]), s[1]))

\* a / d, unsigned, for d # 0.  (A zero divisor is decided by the caller:
\* the quotient given here for it is 0.)
Div(a, d) ==
    IF d = Z THEN Z
    ELSE IF Lt(a, d) THEN Z
    ELSE IF Small(a) /\ Small(d) THEN N(V(a) \div V(d))
    ELSE IF d[2] = 0 /\ d[3] = 0 /\ d[4] = 0 /\ d[5] = 0 THEN DivShort(a, d[1])
    ELSE LET sh == 15 * (TopLimb(d) - 1) + BitLen(d[TopLimb(d)]) - 15
         IN  DivLong(a, d, sh, V(Shr(d, sh)), 5, Z)

----------------------------------------------------------------------------
(* Constants of the module                                                 *)

BW_SCALE_2 == 24
BW_UNIT == N(2^24)
BBR_SCALE == 8
BBR_UNIT == N(2^8)
MIN_RTT_US == N(100000)
MIN_BW == N(14480)
SCC_MIN_RTT_WIN_SEC == 10
SCC_MIN_SEGMENT_SIZE == N(1448)
SCC_MIN_SND_CWND == N(10)
\* The host's timer frequency (jiffies per second), a build constant of the host.
HZ == 1000
USEC_PER_MSEC == N(1000)
USEC_PER_SEC == N(1000000)
TCP_INIT_CWND == N(10)
TCP_INFINITE_SSTHRESH == N(2147483647)
TCP_CA_Recovery == 3
TCP_CA_Loss == 4
U32_MAX == <<32767, 32767, 3, 0, 0>>
U64_MAX == <<32767, 32767, 32767, 32767, 15>>
\* 2^31, the sign bit of an s32
S32_SIGN == <<0, 0, 2, 0, 0>>

bbr_lt_bw_diff == N(500)
min_thesh_tf == N(1713567)
thresh_tf == N(3413567)
bbr_lt_bw_ratio == N(2^8 \div 8)
bbr_pacing_margin_percent == 1
bbr_lt_bw_max_rtts == 48
bbr_lt_intvl_min_rtts == 4
scc_lt_loss_thresh == 3
bbr_lt_loss_thresh == N(50)
bbr_high_gain == N(550)
bbr_rtt_gain == N(250)
bbr_drain_gain == N(100)
bbr_start_gain == BBR_UNIT
scc_drain_gain == N(5646946)

MODE_START_PROBE == "START"
MODE_PROBE_BW == "PROBE_BW"
MODE_PROBE_RTT == "PROBE_RTT"
MODE_DRAIN_PROBE == "DRAIN"
Modes == {MODE_START_PROBE, MODE_PROBE_BW, MODE_PROBE_RTT, MODE_DRAIN_PROBE}

\* (s32)a < 0
Neg32(a) == Ge(U32(a), S32_SIGN)
\* before(a, b): (s32)(a - b) < 0, and after(a, b) == before(b, a)
before(a, b) == Neg32(Sub(a, b))
after(a, b) == before(b, a)
\* An int argument widened to u64 (sign extension of an s32).
SExt64(a) == IF Neg32(a) THEN U64(Add(U32(a), Sub(Add(U64_MAX, N(1)), Add(U32_MAX, N(1))))) ELSE U32(a)

----------------------------------------------------------------------------
(* Pure helpers: s is the struct scc, h the host socket (struct tcp_sock / *)
(* struct sock fields), rs the rate sample.                                *)

\* check_high_rtt with the band of rtt_check (three eighths of rtt_epoch
\* taken off instead of three quarters): not empty at rtt_epoch = 4000.
check_high_rtt_wide(s) ==
    /\ Lt(U32(Add(s.last_rtt, N(1000))), s.curr_rtt)
    /\ Gt(U32(Sub(Add(s.last_rtt, N(s.rtt_epoch)), N((s.rtt_epoch * 3) \div 8))),
          s.curr_rtt)

check_high_rtt(s) ==
    /\ Lt(U32(Add(s.last_rtt, N(1000))), s.curr_rtt)
    /\ Gt(U32(Sub(Add(s.last_rtt, N(s.rtt_epoch)), N((s.rtt_epoch * 3) \div 4))),
          s.curr_rtt)

ack_check(s) ==
    /\ Lt(s.curr_ack, U32(Add(s.last_ack, N(7000))))
    /\ Gt(s.last_ack, SCC_MIN_SND_CWND)
    /\ Gt(s.curr_ack, s.last_ack)

rtt_check(s) ==
    /\ Lt(U32(Add(s.last_min_rtt, N(1000))), s.curr_rtt)
    /\ Gt(U32(Sub(Add(s.last_min_rtt, N(s.rtt_epoch)), N((s.rtt_epoch * 3) \div 8))),
          s.curr_rtt)

bytes_in_flight(h) ==
    LET segment_size == IF h.mss_cache # Z THEN h.mss_cache ELSE SCC_MIN_SEGMENT_SIZE
        inflight == U64(Mul(h.packets_in_flight, segment_size))
    IN  IF Gt(inflight, U32_MAX) THEN U32_MAX ELSE inflight

\* The divisor of percent_gain: (((last_lost + un) * 3)) >> 1 in u32.
percent_gain_den(last_lost, un) ==
    Shr(U32(Mul(U32(Add(last_lost, N(IF un # 0 THEN un ELSE 1))), N(3))), 1)

percent_gain(last_lost, st, un) ==
    Div(Shr(U64(Shl(N((IF st # 0 THEN st ELSE 1) * 3), BW_SCALE_2)), 2),
        percent_gain_den(last_lost, un))

\* tf as every caller computes it
tf_of(s) == percent_gain(s.lt_last_lost, s.stable_flag, s.unfair_flag)
tf_divz(s) == percent_gain_den(s.lt_last_lost, s.unfair_flag) = Z

scc_rate_bytes_per_sec(h, rate, gain) ==
    LET r1 == U64(Mul(rate, h.mss_cache))
        r2 == U64(Mul(r1, SExt64(gain)))
        r3 == Shr(r2, BBR_SCALE)
        r4 == U64(Mul(r3, N((1000000 \div 100) * (100 - bbr_pacing_margin_percent))))
    IN  Shr(r4, BW_SCALE_2)

\* bbr_bw_to_pacing_rate without the cap at the host's sk_max_pacing_rate.
bbr_bw_to_pacing_rate_uncapped(h, bw, gain) == scc_rate_bytes_per_sec(h, bw, gain)

bbr_bw_to_pacing_rate(h, bw, gain) ==
    MinW(scc_rate_bytes_per_sec(h, bw, gain), h.sk_max_pacing_rate)

\* (curr_ack << BW_SCALE_2) * 10000 is computed in u32.
bandwidth(s) ==
    LET tmp_bw == U32(Mul(U32(Shl(s.curr_ack, BW_SCALE_2)), N(10000)))
    IN  MaxW(Div(tmp_bw, s.last_min_rtt), MIN_BW)
bandwidth_divz(s) == s.last_min_rtt = Z

inflight_throughput(s, h) ==
    LET inflight0 == bytes_in_flight(h)
        inflight == IF inflight0 # Z THEN inflight0 ELSE N(448)
    IN  U32(Div(U64(Mul(inflight, N(10000))), s.last_min_rtt))

\* The divisor of fairness_rat after the substitution for beta = 0.
fairness_beta(gamma, beta) ==
    IF beta = Z THEN Shr(U32(Shr(gamma, 2)), BW_SCALE_2) ELSE beta

fairness_rat(gamma, beta) ==
    LET q == U32(Div(gamma, fairness_beta(gamma, beta)))
        lo == IF Lt(q, N(16646946)) THEN N(16646946) ELSE q
    IN  IF Gt(lo, N(21989530)) THEN N(21989530) ELSE lo

scc_bdp(s, bw, gain) ==
    IF s.last_min_rtt = U32_MAX THEN TCP_INIT_CWND
    ELSE LET w == U64(Mul(bw, s.last_min_rtt))
             x == Shr(U64(Mul(w, SExt64(gain))), BW_SCALE_2)
         IN  U32(Shr(U64(Sub(Add(x, BW_UNIT), N(1))), BW_SCALE_2))

scc_inflight(s, bw, gain) == scc_bdp(s, U32(bw), gain)

scc_max_bw(s) ==
    IF s.loss_cnt < 50 THEN MaxW(s.bw, U32(bandwidth(s))) ELSE s.bw
scc_max_bw_divz(s) == s.loss_cnt < 50 /\ bandwidth_divz(s)

scc_bw(s) == IF s.lt_use_bw THEN s.lt_bw ELSE scc_max_bw(s)
scc_bw_divz(s) == ~s.lt_use_bw /\ scc_max_bw_divz(s)

scc_packets_in_net_at_edt(s, h, inflight_now) ==
    LET now_ns == h.tcp_clock_cache
        edt_ns == MaxW(h.tcp_wstamp_ns, now_ns)
        interval_us == Div(Sub(edt_ns, now_ns), N(1000))
        interval_delivered == U32(Shr(U64(Mul(scc_bw(s), interval_us)), BW_SCALE_2))
    IN  IF Ge(interval_delivered, inflight_now) THEN Z
        ELSE Sub(inflight_now, interval_delivered)

\* The host's tcp_stamp_us_delta(t1, t0): (u32)max_t(s64, t1 - t0, 0)
tcp_stamp_us_delta(t1, t0) ==
    LET d == U64(Sub(t1, t0)) IN IF d[5] >= 8 THEN Z ELSE U32(d)

spline_max_cwnd(s) ==
    LET max_could_cwnd == U32(Shr(U64(Mul(s.fairness_rat, s.curr_cwnd)), BW_SCALE_2))
    IN  IF max_could_cwnd # Z THEN max_could_cwnd ELSE N(20)

\* The u32 divisor div_u64 receives in spline_cwnd_gain.
spline_cwnd_gain_den(s) ==
    LET rtt == IF s.last_min_rtt # Z THEN s.last_min_rtt ELSE MIN_RTT_US
        denom0 == Div(U64(Mul(bandwidth(s), USEC_PER_SEC)), rtt)
        denom == IF denom0 = Z THEN MIN_BW ELSE denom0
    IN  U32(denom)

spline_cwnd_gain(s, cwnd) ==
    U32(Div(U64(Shl(cwnd, BW_SCALE_2)), spline_cwnd_gain_den(s)))

cwnd_gain(s) ==
    LET Clamp(g) ==
            IF Lt(g, N(6646946)) THEN N(6646946)
            ELSE IF Gt(g, N(37390997)) THEN N(37390997) ELSE g
    IN  Clamp(spline_cwnd_gain(s, s.curr_ack))

cwnd_loss_phase_den(s, rtt) == Shr(U32(Add(rtt, s.curr_rtt)), 1)

cwnd_loss_phase(s, gain, rtt) ==
    LET cwnd == U32(Div(gain, cwnd_loss_phase_den(s, rtt)))
    IN  U32(Shr(U64(Mul(s.fairness_rat, cwnd)), BW_SCALE_2))

cwnd_stable_phase(gain, rtt) == Shr(U32(Div(gain, rtt)), BW_SCALE_2)

----------------------------------------------------------------------------
(* The entry points' steps.  A call is threaded through a context c:       *)
(*   c.s     struct scc                                                    *)
(*   c.h     the host socket                                               *)
(*   c.divz  a zero divisor was met during the call                        *)
(*   c.fs, c.fh   struct scc and the host socket at the start of the step  *)
(*           that met the first zero divisor                               *)
(*   c.ret   the value the entry point returns, 0 for a void one            *)
(* What a division by zero does depends on the build: the processor raises *)
(* a divide error and the call never returns, which leaves c.fs and c.fh;  *)
(* or the quotient is 0 and the call goes on to c.s and c.h.               *)

Ctx(s, h) == [s |-> s, h |-> h, divz |-> FALSE, fs |-> s, fh |-> h, ret |-> Z]

\* A step from c with zero-divisor condition zd and result c2.
Fault(c, zd, c2) ==
    IF zd /\ ~c.divz THEN [c2 EXCEPT !.divz = TRUE, !.fs = c.s, !.fh = c.h] ELSE c2

update_min_rtt(c, rs) ==
    LET s == c.s
        h == c.h
        new_min_rtt == after(h.jiffies,
                             U32(Add(s.last_min_rtt_stamp, N(SCC_MIN_RTT_WIN_SEC * HZ))))
        curr_rtt == IF h.srtt_us # Z THEN Shr(h.srtt_us, 3) ELSE MIN_RTT_US
        last_rtt == IF h.srtt_us # Z /\ s.curr_rtt = Z THEN curr_rtt ELSE s.curr_rtt
        m1 == IF Lt(curr_rtt, s.last_min_rtt) \/ s.last_min_rtt = Z
              THEN curr_rtt ELSE s.last_min_rtt
        take == /\ rs.rtt_us > 0
                /\ (Lt(N(rs.rtt_us), m1) \/ (new_min_rtt /\ ~rs.is_ack_delayed))
        m2 == IF take THEN U32(N(rs.rtt_us)) ELSE m1
        m3 == IF m2 = Z THEN MIN_RTT_US ELSE m2
        m4 == IF Gt(m3, curr_rtt) THEN curr_rtt ELSE m3
    IN  [c EXCEPT !.s = [s EXCEPT !.last_rtt = last_rtt,
                                  !.curr_rtt = curr_rtt,
                                  !.last_min_rtt = m4,
                                  !.last_min_rtt_stamp =
                                      IF take THEN h.jiffies ELSE @,
                                  !.epp = (@ + 1) % 64]]

update_last_acked_sacked(c, rs) ==
    LET segment_size == IF c.h.mss_cache # Z THEN c.h.mss_cache ELSE SCC_MIN_SEGMENT_SIZE
    IN  [c EXCEPT !.s = [c.s EXCEPT
            !.last_ack = c.s.curr_ack,
            !.curr_ack = IF rs.delivered < 0 THEN Z
                         ELSE U32(Mul(N(rs.delivered), segment_size))]]

scc_is_next_cycle_phase(s, h, rs) ==
    LET is_full_length == Gt(tcp_stamp_us_delta(h.tcp_wstamp_ns, s.cycle_mstamp), N(1))
        Phase(bw, inflight) ==
            IF s.pacing_gain = BBR_UNIT THEN is_full_length
            ELSE IF Gt(s.pacing_gain, BBR_UNIT)
            THEN is_full_length /\
                 (rs.losses \/ Ge(inflight, scc_inflight(s, bw, s.pacing_gain)))
            ELSE is_full_length \/ Le(inflight, scc_inflight(s, bw, s.cwnd_gain))
    IN  Then(scc_bw(s),
             LAMBDA bw : Then(scc_packets_in_net_at_edt(s, h, rs.prior_in_flight),
                              LAMBDA inflight : Phase(bw, inflight)))

update_bandwidth(c) ==
    LET Rat(bw, throughput) ==
            Fault(c, bandwidth_divz(c.s) \/ fairness_beta(bw, throughput) = Z,
                  [c EXCEPT !.s.fairness_rat = fairness_rat(bw, throughput)])
    IN  Rat(bandwidth(c.s), inflight_throughput(c.s, c.h))

scc_reset_lt_bw_sampling_interval(s, h) ==
    [s EXCEPT !.lt_last_stamp = U32(Div(h.delivered_mstamp, USEC_PER_MSEC)),
              !.lt_last_delivered = h.delivered,
              !.lt_last_lost = h.lost,
              !.lt_rtt_cnt = 0]

scc_reset_lt_bw_sampling(s, h) ==
    scc_reset_lt_bw_sampling_interval(
        [s EXCEPT !.lt_bw = Z, !.lt_use_bw = FALSE, !.lt_is_sampling = FALSE,
                  !.lt_rtt_cnt = 0], h)

\* abs() of a u32 difference: the difference read as an s32
abs32(a) == IF Neg32(a) THEN U32(Sub(Z, a)) ELSE U32(a)

\* scc_lt_bw_interval_done keeping the new interval's bandwidth and sampling on.
scc_lt_bw_interval_done_restart(s, h, bw) ==
    scc_reset_lt_bw_sampling_interval([s EXCEPT !.lt_bw = bw], h)

\* scc_lt_bw_interval_done switching to the long-term bandwidth at the end of
\* every interval, the first one included.
scc_lt_bw_interval_done_first(s, h, bw) ==
    [s EXCEPT !.lt_bw = Shr(U32(Add(bw, s.lt_bw)), 1),
              !.lt_use_bw = TRUE,
              !.pacing_gain = BBR_UNIT]

scc_lt_bw_interval_done(s, h, bw) ==
    LET diff == abs32(Sub(bw, s.lt_bw))
        close == \/ Le(U32(Mul(diff, BBR_UNIT)), U32(Mul(bbr_lt_bw_ratio, s.lt_bw)))
                 \/ Le(scc_rate_bytes_per_sec(h, diff, BBR_UNIT), bbr_lt_bw_diff)
    IN  IF s.lt_bw # Z /\ close
        THEN [s EXCEPT !.lt_bw = Shr(U32(Add(bw, s.lt_bw)), 1),
                       !.lt_use_bw = TRUE,
                       !.pacing_gain = BBR_UNIT]
        ELSE scc_reset_lt_bw_sampling_interval([s EXCEPT !.lt_bw = bw], h)

scc_lt_bw_sampling(s0, h, losses, is_app_limited) ==
    LET Stop(s1) ==
            IF s1.lt_rtt_cnt >= bbr_lt_bw_max_rtts THEN scc_reset_lt_bw_sampling(s1, h)
            ELSE s1
        Done(s2, lost, delivered, t) ==
            IF s2.lt_rtt_cnt < bbr_lt_intvl_min_rtts THEN s2
            ELSE IF s2.lt_rtt_cnt > 4 * bbr_lt_intvl_min_rtts
                 THEN scc_reset_lt_bw_sampling(s2, h)
            ELSE IF ~losses THEN s2
            ELSE IF delivered = Z
                    \/ Lt(U32(Shl(lost, BBR_SCALE)), U32(Mul(bbr_lt_loss_thresh, delivered)))
                 THEN s2
            ELSE IF Neg32(t) \/ t = Z THEN s2
            ELSE IF Ge(t, Div(U32_MAX, USEC_PER_MSEC)) THEN scc_reset_lt_bw_sampling(s2, h)
            ELSE scc_lt_bw_interval_done(s2, h,
                     U32(Div(U64(Mul(delivered, BW_UNIT)), U32(Mul(t, USEC_PER_MSEC)))))
        Interval(s2) ==
            Done(s2, U32(Sub(h.lost, s2.lt_last_lost)),
                 U32(Sub(h.delivered, s2.lt_last_delivered)),
                 U32(Sub(Div(h.delivered_mstamp, USEC_PER_MSEC), s2.lt_last_stamp)))
        Sampling(s1) ==
            IF is_app_limited THEN scc_reset_lt_bw_sampling(s1, h)
            ELSE Interval(IF s1.round_start THEN [s1 EXCEPT !.lt_rtt_cnt = (@ + 1) % 128]
                          ELSE s1)
    IN  IF s0.lt_use_bw
        THEN IF s0.current_mode = MODE_PROBE_BW /\ s0.round_start
             THEN Stop([s0 EXCEPT !.lt_rtt_cnt = (@ + 1) % 128])
             ELSE s0
        ELSE IF ~s0.lt_is_sampling /\ ~losses THEN s0
        ELSE Sampling(IF ~s0.lt_is_sampling
                      THEN [scc_reset_lt_bw_sampling_interval(s0, h)
                               EXCEPT !.lt_is_sampling = TRUE]
                      ELSE s0)

\* scc_update_bw looking for the next round trip before it tests the sample.
scc_update_bw_round_first(c, rs) ==
    LET Round(s0) ==
            IF ~before(rs.prior_delivered, s0.delivered)
            THEN [s0 EXCEPT !.delivered = U32(Mul(c.h.delivered, SCC_MIN_SEGMENT_SIZE)),
                            !.rtt_cnt = U32(Add(@, N(1))),
                            !.round_start = TRUE]
            ELSE s0
        Filter(c2, bw) ==
            Fault(c2, rs.is_app_limited /\ scc_max_bw_divz(c2.s),
                  IF ~rs.is_app_limited \/ Ge(bw, scc_max_bw(c2.s))
                  THEN [c2 EXCEPT !.s.bw = U32(bw)] ELSE c2)
    IN  IF rs.delivered < 0 \/ rs.interval_us <= 0
        THEN [c EXCEPT !.s = Round([c.s EXCEPT !.round_start = FALSE])]
        ELSE Filter([c EXCEPT !.s = scc_lt_bw_sampling(
                                        Round([c.s EXCEPT !.round_start = FALSE]),
                                        c.h, rs.losses, rs.is_app_limited)],
                    Div(U64(Mul(N(rs.delivered), BW_UNIT)), N(rs.interval_us)))

\* scc_update_bw taking every valid sample into the filter, app-limited or not.
scc_update_bw_unfiltered(c, rs) ==
    LET Round(s0) ==
            IF ~before(rs.prior_delivered, s0.delivered)
            THEN [s0 EXCEPT !.delivered = U32(Mul(c.h.delivered, SCC_MIN_SEGMENT_SIZE)),
                            !.rtt_cnt = U32(Add(@, N(1))),
                            !.round_start = TRUE]
            ELSE s0
        Filter(c2, bw) ==
            Fault(c2, rs.is_app_limited /\ scc_max_bw_divz(c2.s),
                  [c2 EXCEPT !.s.bw = U32(bw)])
    IN  IF rs.delivered < 0 \/ rs.interval_us <= 0
        THEN [c EXCEPT !.s.round_start = FALSE]
        ELSE Filter([c EXCEPT !.s = scc_lt_bw_sampling(
                                        Round([c.s EXCEPT !.round_start = FALSE]),
                                        c.h, rs.losses, rs.is_app_limited)],
                    Div(U64(Mul(N(rs.delivered), BW_UNIT)), N(rs.interval_us)))

scc_update_bw(c, rs) ==
    LET Round(s0) ==
            IF ~before(rs.prior_delivered, s0.delivered)
            THEN [s0 EXCEPT !.delivered = U32(Mul(c.h.delivered, SCC_MIN_SEGMENT_SIZE)),
                            !.rtt_cnt = U32(Add(@, N(1))),
                            !.round_start = TRUE]
            ELSE s0
        Filter(c2, bw) ==
            Fault(c2, rs.is_app_limited /\ scc_max_bw_divz(c2.s),
                  IF ~rs.is_app_limited \/ Ge(bw, scc_max_bw(c2.s))
                  THEN [c2 EXCEPT !.s.bw = U32(bw)] ELSE c2)
    IN  IF rs.delivered < 0 \/ rs.interval_us <= 0
        THEN [c EXCEPT !.s.round_start = FALSE]
        ELSE Filter([c EXCEPT !.s = scc_lt_bw_sampling(
                                        Round([c.s EXCEPT !.round_start = FALSE]),
                                        c.h, rs.losses, rs.is_app_limited)],
                    Div(U64(Mul(N(rs.delivered), BW_UNIT)), N(rs.interval_us)))

\* The comparison with 1 << 16 is made in int; a u16 never equals it.
\* fairness_check not looking at the ACKed bytes.
fairness_check_no_ack(s) ==
    IF s.unfair_flag = 2^16 THEN [s EXCEPT !.unfair_flag = U16(2^16)]
    ELSE IF ~rtt_check(s) /\ ~check_high_rtt(s)
    THEN [s EXCEPT !.unfair_flag = U16(@ + 1)]
    ELSE s

fairness_check(s) ==
    IF s.unfair_flag = 2^16 THEN [s EXCEPT !.unfair_flag = U16(2^16)]
    ELSE IF ~rtt_check(s) /\ ~ack_check(s) /\ ~check_high_rtt(s)
    THEN [s EXCEPT !.unfair_flag = U16(@ + 1)]
    ELSE s

stable_check(s) ==
    IF s.stable_flag = 2^16 THEN [s EXCEPT !.stable_flag = U16(2^16)]
    ELSE IF rtt_check(s) /\ ack_check(s) /\ check_high_rtt(s)
    THEN [s EXCEPT !.stable_flag = U16(@ + 1)]
    ELSE s

high_rtt_round(s0, h) ==
    LET Round(s1) ==
            IF /\ s1.high_round = 50
               /\ ack_check(s1)
               /\ Gt(bytes_in_flight(h), U32(Mul(s1.curr_cwnd, SCC_MIN_SEGMENT_SIZE)))
            THEN [s1 EXCEPT !.high_round = 0,
                            !.rtt_epoch = IF @ < 2^15 THEN U16(@ + 4000) ELSE @]
            ELSE IF s1.high_round = 50 THEN [s1 EXCEPT !.high_round = 0]
            ELSE s1
    IN  Round(IF ~check_high_rtt(s0) THEN [s0 EXCEPT !.high_round = (@ + 1) % 64] ELSE s0)

\* loss_rate without the decrement of loss_cnt on a trusted path.
loss_rate_no_decay(c) ==
    LET s == c.s
        lost == U32(Sub(c.h.lost, s.lt_last_lost))
        delivered == U32(Sub(c.h.delivered, s.lt_last_delivered))
        n1 == IF Gt(U32(Shl(lost, BBR_SCALE)), Shr(delivered, scc_lt_loss_thresh))
                 /\ s.loss_cnt < 2^8
              THEN (s.loss_cnt + 1) % 256 ELSE s.loss_cnt
    IN  Fault(c, tf_divz(s), [c EXCEPT !.s.loss_cnt = n1])

\* loss_cnt is an 8-bit field: the guard loss_cnt < 1 << 8 always holds.
loss_rate(c) ==
    LET s == c.s
        tf == tf_of(s)
        lost == U32(Sub(c.h.lost, s.lt_last_lost))
        delivered == U32(Sub(c.h.delivered, s.lt_last_delivered))
        n1 == IF Gt(U32(Shl(lost, BBR_SCALE)), Shr(delivered, scc_lt_loss_thresh))
                 /\ s.loss_cnt < 2^8
              THEN (s.loss_cnt + 1) % 256 ELSE s.loss_cnt
        n2 == IF n1 > 1 /\ Gt(tf, thresh_tf) THEN n1 - 1 ELSE n1
    IN  Fault(c, tf_divz(s), [c EXCEPT !.s.loss_cnt = n2])

start_probe(s) ==
    [s EXCEPT !.curr_cwnd = MaxW(U32(Add(@, SCC_MIN_SND_CWND)), SCC_MIN_SND_CWND)]

\* check_drain_probe with the threshold of the long-term detector,
\* scc_lt_loss_thresh + 1, not six times it.
check_drain_probe_low(s) ==
    IF ~rtt_check(s) /\ ~ack_check(s)
       /\ Gt(s.lt_last_lost, N(scc_lt_loss_thresh + 1))
    THEN [s EXCEPT !.current_mode = MODE_DRAIN_PROBE]
    ELSE s

check_drain_probe(s) ==
    IF ~rtt_check(s) /\ ~ack_check(s)
       /\ Gt(s.lt_last_lost, N(((scc_lt_loss_thresh + 1) * 3) * 2))
    THEN [s EXCEPT !.current_mode = MODE_DRAIN_PROBE]
    ELSE s

\* check_epoch_probes_rtt_bw deciding on tf alone.
check_epoch_probes_rtt_bw_tf_only(s) ==
    IF Lt(tf_of(s), thresh_tf)
    THEN [s EXCEPT !.current_mode = MODE_PROBE_RTT]
    ELSE [s EXCEPT !.current_mode = MODE_PROBE_BW]

check_epoch_probes_rtt_bw(s) ==
    IF Lt(tf_of(s), thresh_tf) \/ s.unfair_flag > s.stable_flag
    THEN [s EXCEPT !.current_mode = MODE_PROBE_RTT]
    ELSE [s EXCEPT !.current_mode = MODE_PROBE_BW]

\* check_probes drawing the next round as init draws the first, 10 + rand.
check_probes_as_init(c, rand) ==
    LET s == c.s
        s1 == IF s.start_phase
              THEN [s EXCEPT !.epp = 0, !.EPOCH_ROUND = 20, !.start_phase = FALSE]
              ELSE [s EXCEPT !.epp = 0, !.EPOCH_ROUND = 10 + rand]
    IN  IF s.epp = s.EPOCH_ROUND
        THEN Fault([c EXCEPT !.s = s1], tf_divz(s1),
                   [c EXCEPT !.s = check_drain_probe(check_epoch_probes_rtt_bw(s1))])
        ELSE c

\* check_probes leaving epp at EPOCH_ROUND when it decides.
check_probes_no_reset(c, rand) ==
    LET s == c.s
        s1 == IF s.start_phase
              THEN [s EXCEPT !.EPOCH_ROUND = 20, !.start_phase = FALSE]
              ELSE [s EXCEPT !.EPOCH_ROUND = 1 + rand]
    IN  IF s.epp = s.EPOCH_ROUND
        THEN Fault([c EXCEPT !.s = s1], tf_divz(s1),
                   [c EXCEPT !.s = check_drain_probe(check_epoch_probes_rtt_bw(s1))])
        ELSE c

\* rand is the value get_random_u32() % 31 of this call.
check_probes(c, rand) ==
    LET s == c.s
        s1 == IF s.start_phase
              THEN [s EXCEPT !.epp = 0, !.EPOCH_ROUND = 20, !.start_phase = FALSE]
              ELSE [s EXCEPT !.epp = 0, !.EPOCH_ROUND = 1 + rand]
    IN  IF s.epp = s.EPOCH_ROUND
        THEN Fault([c EXCEPT !.s = s1], tf_divz(s1),
                   [c EXCEPT !.s = check_drain_probe(check_epoch_probes_rtt_bw(s1))])
        ELSE c

\* gains_mode giving the round-trip probe the gain of the bandwidth probe.
gains_mode_high(s) ==
    CASE s.current_mode = MODE_DRAIN_PROBE ->
            [s EXCEPT !.pacing_gain = bbr_drain_gain, !.cwnd_gain = scc_drain_gain]
      [] OTHER -> [s EXCEPT !.pacing_gain = bbr_high_gain]

gains_mode(s) ==
    CASE s.current_mode = MODE_PROBE_BW -> [s EXCEPT !.pacing_gain = bbr_high_gain]
      [] s.current_mode = MODE_PROBE_RTT -> [s EXCEPT !.pacing_gain = bbr_rtt_gain]
      [] s.current_mode = MODE_DRAIN_PROBE ->
            [s EXCEPT !.pacing_gain = bbr_drain_gain, !.cwnd_gain = scc_drain_gain]
      [] OTHER -> [s EXCEPT !.pacing_gain = bbr_high_gain]

\* The averaged rtt spline_gain returns.
spline_gain_rtt(s) ==
    LET rtt == Shr(U32(Add(s.last_min_rtt, s.curr_rtt)), 1)
    IN  IF rtt # Z THEN rtt ELSE MIN_RTT_US

spline_gain(s0) ==
    LET Gains(s, bw, cwnd_spline_gain) ==
            [s EXCEPT !.gain = U32(MaxW(U64(Mul(U64(Mul(cwnd_spline_gain, bw)),
                                                spline_gain_rtt(s))),
                                        N(646946))),
                      !.cwnd_gain = cwnd_spline_gain]
    IN  Then(U32(bandwidth(s0)),
             LAMBDA bw : Then(gains_mode(s0),
                              LAMBDA s : Then(cwnd_gain(s), LAMBDA g : Gains(s, bw, g))))
spline_gain_divz(s) == bandwidth_divz(s) \/ spline_cwnd_gain_den(s) = Z

loss_backoff_cwnd(s) ==
    LET ls == IF s.loss_cnt > 12 THEN 12 ELSE s.loss_cnt
    IN  IF ls > 9
        THEN [s EXCEPT !.curr_cwnd =
                 Shr(U32(Mul(Mul(Mul(@, N(ls)), N(ls)), N(ls))), ls)]
        ELSE s

spline_cwnd_next_gain(c, rs) ==
    LET Grow(s3, tf, cwnd) ==
            [s3 EXCEPT !.curr_cwnd =
                U32(Add(MaxW(U32(Shr(U64(Mul(@, MaxW(tf, min_thesh_tf))), BW_SCALE_2)),
                             cwnd),
                        rs.acked_sacked))]
        Back(s1, cwnd, tf, curr_cwnd) ==
            Then(loss_backoff_cwnd([s1 EXCEPT !.curr_cwnd = curr_cwnd]),
                 LAMBDA s3 : Grow(s3, tf, cwnd))
        Phase(s1, rtt, loss) ==
            Fault(c,
                  \/ spline_gain_divz(c.s)
                  \/ tf_divz(s1)
                  \/ (loss /\ cwnd_loss_phase_den(s1, rtt) = Z),
                  [c EXCEPT !.s =
                      Then(Shr(spline_max_cwnd(s1), 3),
                           LAMBDA cwnd :
                               Then(tf_of(s1),
                                    LAMBDA tf :
                                        Then(IF loss THEN cwnd_loss_phase(s1, s1.gain, rtt)
                                             ELSE cwnd_stable_phase(s1.gain, rtt),
                                             LAMBDA curr_cwnd :
                                                 Back(s1, cwnd, tf, curr_cwnd))))])
        Gained(s1, rtt) ==
            Phase(s1, rtt,
                  s1.unfair_flag > 2000 \/ ~check_high_rtt(s1) \/ s1.loss_cnt > 10)
    IN  Then(spline_gain(c.s), LAMBDA s1 : Gained(s1, spline_gain_rtt(c.s)))

update_probes(c0, rs, rand) ==
    LET Mode(c) ==
            IF c.s.current_mode = MODE_START_PROBE
            THEN [c EXCEPT !.s = start_probe([c.s EXCEPT !.pacing_gain = bbr_start_gain])]
            ELSE spline_cwnd_next_gain(c, rs)
    IN  Then(check_probes(c0, rand), LAMBDA c : Mode(c))

\* The cycle test of spline_update: cycle_mstamp is written before scc_bw is read.
spline_cycle(c1, rs) ==
    LET Band(c2, next) ==
            IF next \/ c2.s.start_phase THEN update_bandwidth(c2) ELSE c2
        Stamp(c2) == Fault(c2, scc_bw_divz(c1.s), c2)
    IN  Band(Stamp([c1 EXCEPT !.s.cycle_mstamp = c1.h.tcp_wstamp_ns]),
             scc_is_next_cycle_phase(c1.s, c1.h, rs))

\* fairness_check, high_rtt_round and stable_check, in the order of spline_update.
spline_flags(c) ==
    [c EXCEPT !.s = stable_check(high_rtt_round(fairness_check(c.s), c.h))]

spline_update(c0, rs, rand) ==
    Then(Then(Then(Then(Then(Then(
        update_min_rtt(c0, rs),
        LAMBDA c : update_last_acked_sacked(c, rs)),
        LAMBDA c : spline_cycle(c, rs)),
        LAMBDA c : scc_update_bw(c, rs)),
        LAMBDA c : spline_flags(c)),
        LAMBDA c : loss_rate(c)),
        LAMBDA c : update_probes(c, rs, rand))


\* next_cwnd smoothing on the flags alone, whatever loss_cnt is.
next_cwnd_any_loss(s, target_cwnd, cwnd) ==
    IF Lt(tf_of(s), thresh_tf) /\ ~s.start_phase /\ s.loss_cnt > 50 THEN cwnd
    ELSE IF \/ (s.unfair_flag > 2000 /\ s.stable_flag < 300)
            \/ s.unfair_flag > s.stable_flag + 500
    THEN Shr(U32(Mul(U32(Add(target_cwnd, cwnd)), N(7))), 4)
    ELSE MaxW(target_cwnd, cwnd)

\* next_cwnd smoothing on the loss count alone, whatever the flags.
next_cwnd_on_loss(s, target_cwnd, cwnd) ==
    IF Lt(tf_of(s), thresh_tf) /\ ~s.start_phase /\ s.loss_cnt > 50 THEN cwnd
    ELSE IF s.loss_cnt > 5
    THEN Shr(U32(Mul(U32(Add(target_cwnd, cwnd)), N(7))), 4)
    ELSE MaxW(target_cwnd, cwnd)

next_cwnd(s, target_cwnd, cwnd) ==
    IF Lt(tf_of(s), thresh_tf) /\ ~s.start_phase /\ s.loss_cnt > 50 THEN cwnd
    ELSE IF /\ \/ (s.unfair_flag > 2000 /\ s.stable_flag < 300)
               \/ s.unfair_flag > s.stable_flag + 500
            /\ s.loss_cnt > 5
    THEN Shr(U32(Mul(U32(Add(target_cwnd, cwnd)), N(7))), 4)
    ELSE MaxW(target_cwnd, cwnd)

\* cwnd_to_send without the cap at the host's snd_cwnd_clamp.
cwnd_to_send_uncapped(s, h, rs, bw) ==
    Then(Then(scc_bdp(s, bw, s.cwnd_gain),
              LAMBDA target_cwnd : next_cwnd(s, target_cwnd, s.curr_cwnd)),
         LAMBDA cwnd : U32(Add(MaxW(cwnd, SCC_MIN_SND_CWND), rs.acked_sacked)))

\* The value spline_cwnd_send hands to tcp_snd_cwnd_set.
cwnd_to_send(s, h, rs, bw) ==
    Then(Then(scc_bdp(s, bw, s.cwnd_gain),
              LAMBDA target_cwnd : next_cwnd(s, target_cwnd, s.curr_cwnd)),
         LAMBDA cwnd : MinW(U32(Add(MaxW(cwnd, SCC_MIN_SND_CWND), rs.acked_sacked)),
                            h.snd_cwnd_clamp))

spline_cwnd_send(c, rs, bw) ==
    Fault(c, tf_divz(c.s), [c EXCEPT !.h.snd_cwnd = cwnd_to_send(c.s, c.h, rs, bw)])

bbr_init_pacing_rate_from_rtt(c) ==
    LET h == c.h
        rtt_us == IF h.srtt_us # Z THEN MaxW(Shr(h.srtt_us, 3), N(1)) ELSE USEC_PER_MSEC
        bw == Div(U64(Mul(h.snd_cwnd, BW_UNIT)), rtt_us)
    IN  [c EXCEPT !.s.has_seen_rtt = IF h.srtt_us # Z THEN TRUE ELSE @,
                  !.h.sk_pacing_rate = bbr_bw_to_pacing_rate(h, bw, c.s.pacing_gain)]

\* bbr_set_pacing_rate installing the new rate whether it is greater or not.
bbr_set_pacing_rate_always(c0, bw, gain) ==
    LET Raise(c1, rate) == [c1 EXCEPT !.h.sk_pacing_rate = rate]
    IN  Raise(IF ~c0.s.has_seen_rtt /\ c0.h.srtt_us # Z
              THEN bbr_init_pacing_rate_from_rtt(c0) ELSE c0,
              bbr_bw_to_pacing_rate(c0.h, bw, gain))

bbr_set_pacing_rate(c0, bw, gain) ==
    LET Raise(c1, rate) ==
            IF Gt(rate, c1.h.sk_pacing_rate) THEN [c1 EXCEPT !.h.sk_pacing_rate = rate]
            ELSE c1
    IN  Raise(IF ~c0.s.has_seen_rtt /\ c0.h.srtt_us # Z
              THEN bbr_init_pacing_rate_from_rtt(c0) ELSE c0,
              bbr_bw_to_pacing_rate(c0.h, bw, gain))

spline_main(c0, rs, rand) ==
    LET Pace(c1, bw) ==
            [Fault(c1, scc_bw_divz(c1.s), bbr_set_pacing_rate(c1, bw, c1.s.pacing_gain))
                EXCEPT !.h.snd_ssthresh = TCP_INFINITE_SSTHRESH]
        Send(c1, bw) == Then(Pace(c1, bw), LAMBDA c2 : spline_cwnd_send(c2, rs, bw))
    IN  Then(spline_update([c0 EXCEPT !.s.curr_cwnd = c0.h.snd_cwnd], rs, rand),
             LAMBDA c1 : Then(scc_bw(c1.s), LAMBDA bw : Send(c1, bw)))

\* spline_undo_cwnd restarting the sampling interval only.
spline_undo_cwnd_interval(c) ==
    [c EXCEPT !.s = scc_reset_lt_bw_sampling_interval(c.s, c.h), !.ret = c.h.snd_cwnd]

\* spline_undo_cwnd restarting the probing from START.
spline_undo_cwnd_restart(c) ==
    [c EXCEPT !.s = [scc_reset_lt_bw_sampling(c.s, c.h)
                        EXCEPT !.current_mode = MODE_START_PROBE],
              !.ret = c.h.snd_cwnd]

spline_undo_cwnd(c) ==
    [c EXCEPT !.s = scc_reset_lt_bw_sampling(c.s, c.h), !.ret = c.h.snd_cwnd]

\* spline_set_state entering the drain mode on a retransmission timeout.
spline_set_state_drain(c, new_state) ==
    IF new_state = TCP_CA_Loss
    THEN [c EXCEPT !.s = scc_lt_bw_sampling(
                            [c.s EXCEPT !.prev_ca_state = TCP_CA_Loss, !.round_start = TRUE,
                                        !.current_mode = MODE_DRAIN_PROBE],
                            c.h, TRUE, FALSE)]
    ELSE c

\* spline_set_state sampling on every state change, not only on TCP_CA_Loss.
spline_set_state_any(c, new_state) ==
    [c EXCEPT !.s = scc_lt_bw_sampling(
                        [c.s EXCEPT !.prev_ca_state = new_state, !.round_start = TRUE],
                        c.h, TRUE, FALSE)]

\* The synthetic sample of spline_set_state is { .losses = 1 }.
spline_set_state(c, new_state) ==
    IF new_state = TCP_CA_Loss
    THEN [c EXCEPT !.s = scc_lt_bw_sampling(
                            [c.s EXCEPT !.prev_ca_state = TCP_CA_Loss, !.round_start = TRUE],
                            c.h, TRUE, FALSE)]
    ELSE c

\* spline_save_cwnd writes a local only.
spline_ssthresh(c) == [c EXCEPT !.ret = c.h.snd_ssthresh]

spline_cwnd_event(c, tx_start) ==
    IF tx_start /\ c.h.app_limited /\ c.s.current_mode = MODE_PROBE_BW
    THEN Fault(c, scc_bw_divz(c.s), bbr_set_pacing_rate(c, scc_bw(c.s), BBR_UNIT))
    ELSE c

\* The state block as the host hands it over: the private area is zeroed by the
\* host when the congestion control is assigned, before init runs.
ZeroSlot ==
    [curr_cwnd |-> Z, last_min_rtt |-> Z, last_ack |-> Z, curr_ack |-> Z,
     fairness_rat |-> Z, last_rtt |-> Z, curr_rtt |-> Z, gain |-> Z, cwnd_gain |-> Z,
     cycle_mstamp |-> Z, bw |-> Z, lt_bw |-> Z, last_min_rtt_stamp |-> Z,
     lt_last_stamp |-> Z, lt_last_lost |-> Z, lt_last_delivered |-> Z,
     pacing_gain |-> Z, delivered |-> Z, rtt_epoch |-> 0, unfair_flag |-> 0,
     stable_flag |-> 0, rtt_cnt |-> Z, epp |-> 0, EPOCH_ROUND |-> 0,
     lt_use_bw |-> FALSE, current_mode |-> MODE_START_PROBE, prev_ca_state |-> 0,
     lt_is_sampling |-> FALSE, lt_rtt_cnt |-> 0, round_start |-> FALSE,
     has_seen_rtt |-> FALSE, high_round |-> 0, loss_cnt |-> 0, start_phase |-> FALSE]

\* rand is get_random_u32() % 31; min_rtt is the host's tcp_min_rtt(tp).
spline_init(c, rand, min_rtt) ==
    LET Reset(c2) ==
            [c2 EXCEPT !.s = scc_reset_lt_bw_sampling([c2.s EXCEPT !.round_start = FALSE],
                                                      c2.h)]
    IN  Reset(bbr_init_pacing_rate_from_rtt(
                  [c EXCEPT !.s = [c.s EXCEPT
                      !.last_min_rtt = min_rtt,
                      !.curr_rtt = Z, !.curr_ack = Z, !.last_ack = Z,
                      !.fairness_rat = Z, !.epp = 0,
                      !.curr_cwnd = SCC_MIN_SND_CWND,
                      !.current_mode = MODE_START_PROBE,
                      !.cycle_mstamp = Z, !.lt_rtt_cnt = 0,
                      !.EPOCH_ROUND = 10 + rand,
                      !.rtt_epoch = 4000,
                      !.last_min_rtt_stamp = c.h.jiffies,
                      !.high_round = 0, !.unfair_flag = 0, !.stable_flag = 0,
                      !.rtt_cnt = Z, !.loss_cnt = 0]]))

----------------------------------------------------------------------------
(* The connection and its host                                             *)

VARIABLES
    scc,        \* struct scc, the per-connection state block
    tp,         \* the host socket: the fields the module reads and writes
    oops,       \* a divide error has stopped the connection's processing
    divz,       \* the last call met a zero divisor
    op,         \* the entry point called last
    decided,    \* the last cong_control call took a phase decision
    decisions,  \* phase decisions taken since init
    calls,      \* cong_control calls so far
    prof,       \* the sample profile of the last cong_control call
    changes,    \* changes of sample profile and calls of the other entry points so far
    ret         \* the value the last call returned

vars == <<scc, tp, oops, divz, op, decided, decisions, calls, prof, changes, ret>>

\* Bounds of the exploration.
MaxCalls == 12
MaxChanges == 1

\* The ACK counts after which the path may change or the host raise an event:
\* on the fresh connection, and around the first phase decision.
ChangeAt == {0, 10, 11}
MaxRun == 300

\* The values get_random_u32() % 31 is drawn from.
RandVals == {0, 30}

\* Sample profiles: what the host reports with one ACK.  The host counters
\* advance by d_lost, delivered and dt_us before cong_control runs.
Steady ==
    [srtt_us |-> N(400000), rtt_us |-> 50000, delivered |-> 10, interval_us |-> 10000,
     d_lost |-> N(0), dt_us |-> N(50000), prior_in_flight |-> N(10),
     packets_in_flight |-> N(10), acked_sacked |-> N(10), losses |-> FALSE,
     is_app_limited |-> FALSE, is_ack_delayed |-> FALSE, fresh |-> TRUE,
     mss_cache |-> N(1448), snd_cwnd_clamp |-> U32_MAX, sk_max_pacing_rate |-> U64_MAX]

Lossy == [Steady EXCEPT !.losses = TRUE, !.d_lost = N(10)]
AppLimited == [Steady EXCEPT !.is_app_limited = TRUE, !.delivered = 2, !.fresh = FALSE]
Idle == [Steady EXCEPT !.delivered = 0, !.acked_sacked = Z, !.dt_us = Z]
Invalid ==
    [Steady EXCEPT !.interval_us = 0, !.rtt_us = 0, !.losses = TRUE, !.d_lost = N(10)]
TinySrtt == [Steady EXCEPT !.srtt_us = N(4), !.rtt_us = 0]
NoSrtt == [Steady EXCEPT !.srtt_us = Z, !.rtt_us = 0, !.dt_us = N(11000000)]
Clamped == [Steady EXCEPT !.snd_cwnd_clamp = N(4), !.sk_max_pacing_rate = N(100000)]
NoSample == [Steady EXCEPT !.delivered = -1, !.interval_us = -1, !.rtt_us = -1]
LossyFast ==
    [Lossy EXCEPT !.delivered = 20, !.d_lost = N(20), !.acked_sacked = N(20),
                  !.prior_in_flight = N(20), !.packets_in_flight = N(20)]

Profiles ==
    <<Steady, Lossy, AppLimited, Idle, Invalid, TinySrtt, NoSrtt, Clamped, NoSample,
      LossyFast>>

\* The host socket when the congestion control is initialised.
Host0 ==
    [snd_cwnd |-> TCP_INIT_CWND, snd_cwnd_clamp |-> U32_MAX,
     sk_pacing_rate |-> Z, sk_max_pacing_rate |-> U64_MAX, snd_ssthresh |-> Z,
     srtt_us |-> Z, mss_cache |-> N(1448),
     delivered |-> N(2^29), lost |-> Z,
     delivered_mstamp |-> Div(Shl(N(1), 32), N(1000)),
     tcp_clock_cache |-> Shl(N(1), 32), tcp_wstamp_ns |-> Shl(N(1), 32),
     jiffies |-> N(4294), packets_in_flight |-> Z, app_limited |-> FALSE]

\* The host's bookkeeping for one ACK, done before it calls cong_control.
HostAck(h, p) ==
    LET clock == Add(h.tcp_clock_cache, Mul(p.dt_us, N(1000)))
    IN  [h EXCEPT !.srtt_us = p.srtt_us,
                  !.mss_cache = p.mss_cache,
                  !.snd_cwnd_clamp = p.snd_cwnd_clamp,
                  !.sk_max_pacing_rate = p.sk_max_pacing_rate,
                  !.packets_in_flight = p.packets_in_flight,
                  !.delivered = U32(Add(@, N(IF p.delivered > 0 THEN p.delivered ELSE 0))),
                  !.lost = U32(Add(@, p.d_lost)),
                  !.delivered_mstamp = Add(@, p.dt_us),
                  !.tcp_clock_cache = clock,
                  !.tcp_wstamp_ns = clock,
                  !.jiffies = U32(Add(@, Div(p.dt_us, N(1000))))]

\* The rate sample of one ACK.  A fresh sample's packet was sent after the
\* round's anchor; a stale one's at the start of the connection.
Sample(h, p) ==
    [delivered |-> p.delivered, interval_us |-> p.interval_us, rtt_us |-> p.rtt_us,
     prior_in_flight |-> p.prior_in_flight,
     prior_delivered |-> IF p.fresh THEN h.delivered ELSE Z,
     acked_sacked |-> p.acked_sacked, losses |-> p.losses,
     is_app_limited |-> p.is_app_limited, is_ack_delayed |-> p.is_ack_delayed]

Init ==
    \E rand \in RandVals :
        LET c == spline_init(Ctx(ZeroSlot, Host0), rand, U32_MAX)
        IN  /\ scc = c.s
            /\ tp = c.h
            /\ oops = FALSE
            /\ divz = FALSE
            /\ op = "init"
            /\ decided = FALSE
            /\ decisions = 0
            /\ calls = 0
            /\ prof = 0
            /\ changes = 0
            /\ ret = Z

MayChange == changes < MaxChanges /\ calls \in ChangeAt

\* What a call leaves behind.  A call that divides by zero either stops at its
\* first such division with a divide error, keeping the writes of the steps
\* before it, or
\* runs to its end with quotient 0: the build decides which.
Commit(c) ==
    \E trap \in IF c.divz THEN BOOLEAN ELSE {FALSE} :
        /\ scc' = IF trap THEN c.fs ELSE c.s
        /\ tp' = IF trap THEN c.fh ELSE c.h
        /\ oops' = trap
        /\ divz' = c.divz
        /\ ret' = IF trap THEN Z ELSE c.ret

\* cong_control (spline_main) on the ACK of profile i.  The random number is
\* read only by a call that takes a phase decision.
Ack(i, rands) ==
    /\ ~oops
    /\ \E rand \in IF (scc.epp + 1) % 64 = scc.EPOCH_ROUND THEN rands ELSE {0} :
          \E c \in {spline_main(Ctx(scc, HostAck(tp, Profiles[i])),
                                Sample(tp, Profiles[i]), rand)} :
              Commit(c)
    /\ decided' = ((scc.epp + 1) % 64 = scc.EPOCH_ROUND /\ scc'.epp = 0)
    /\ decisions' = IF decided' THEN decisions + 1 ELSE decisions
    /\ op' = "on_ack"
    /\ calls' = calls + 1
    /\ prof' = i
    /\ changes' = IF prof = 0 \/ prof = i THEN changes ELSE changes + 1

\* An ACK of any profile; the profile changes only where a change may happen.
OnAck(i) ==
    /\ calls < MaxCalls
    /\ prof = 0 \/ prof = i \/ MayChange
    /\ Ack(i, RandVals)

\* An ACK of a long connection whose path does not change.
RunAck(i) ==
    /\ calls < MaxRun
    /\ prof = 0 \/ prof = i
    /\ Ack(i, {0})

SetState(new_state) ==
    /\ ~oops
    /\ MayChange
    /\ Commit(spline_set_state(Ctx(scc, tp), new_state))
    /\ op' = "set_state"
    /\ changes' = changes + 1
    /\ UNCHANGED <<decided, decisions, calls, prof>>

CwndEvent(tx_start, app_limited) ==
    /\ ~oops
    /\ MayChange
    /\ \E c \in {spline_cwnd_event(Ctx(scc, [tp EXCEPT !.app_limited = app_limited]),
                                    tx_start)} :
          Commit(c)
    /\ op' = "cwnd_event"
    /\ changes' = changes + 1
    /\ UNCHANGED <<decided, decisions, calls, prof>>

UndoCwnd ==
    /\ ~oops
    /\ MayChange
    /\ Commit(spline_undo_cwnd(Ctx(scc, tp)))
    /\ op' = "undo_cwnd"
    /\ changes' = changes + 1
    /\ UNCHANGED <<decided, decisions, calls, prof>>

Ssthresh ==
    /\ ~oops
    /\ MayChange
    /\ Commit(spline_ssthresh(Ctx(scc, tp)))
    /\ op' = "ssthresh"
    /\ changes' = changes + 1
    /\ UNCHANGED <<decided, decisions, calls, prof>>

Next ==
    \/ \E i \in 1..Len(Profiles) : OnAck(i)
    \/ \E new_state \in {TCP_CA_Recovery, TCP_CA_Loss} : SetState(new_state)
    \/ \E tx_start \in BOOLEAN, app_limited \in BOOLEAN : CwndEvent(tx_start, app_limited)
    \/ UndoCwnd
    \/ Ssthresh

Spec == Init /\ [][Next]_vars

\* A long connection on an unchanging lossy path, the random source giving 0.
InitRun == Init /\ scc.EPOCH_ROUND = 10

NextRun == RunAck(2)

SpecRun == InitRun /\ [][NextRun]_vars

----------------------------------------------------------------------------
(* A path that loses every packet: each ACK ends a round trip, reports     *)
(* losses and is not app-limited, and the host's lost count advances as    *)
(* fast as delivered.  The delivery rate is 10 or 20 packets per round and *)
(* may change where a sampling interval of 4 rounds ends.                  *)

MaxLtCalls == 16

LtAck(i) ==
    /\ calls < MaxLtCalls
    /\ prof = 0 \/ prof = i \/ calls % bbr_lt_intvl_min_rtts = 0
    /\ Ack(i, {0})

NextLt == \E i \in {2, 10} : LtAck(i)

SpecLt == Init /\ [][NextLt]_vars

----------------------------------------------------------------------------
(* The first ACKs of a connection whose retransmission timer fires.  On a  *)
(* timeout the host marks d packets lost, which advances its lost count,   *)
(* and then reports TCP_CA_Loss to set_state.  The ACKs carry a loss-free  *)
(* sample or an invalid one that reports losses.                           *)

MaxRtoSteps == 3

RtoAck(i) ==
    /\ calls + changes < MaxRtoSteps
    /\ Ack(i, {0})

Timeout(d) ==
    /\ ~oops
    /\ calls + changes < MaxRtoSteps
    /\ Commit(spline_set_state(Ctx(scc, [tp EXCEPT !.lost = U32(Add(@, N(d)))]),
                               TCP_CA_Loss))
    /\ op' = "set_state"
    /\ changes' = changes + 1
    /\ UNCHANGED <<decided, decisions, calls, prof>>

NextRto ==
    \/ \E i \in {1, 5} : RtoAck(i)
    \/ \E d \in {1, 5} : Timeout(d)

SpecRto == Init /\ [][NextRto]_vars

----------------------------------------------------------------------------
(* The flag counters of a long connection.  fairness_check and stable_check *)
(* read and write struct scc only; each on_ack calls both.  The counters    *)
(* gain at most 1 per on_ack, so their values near the top of u16 are       *)
(* drawn here instead of being counted up to.                               *)

MaxFlagCalls == 2

FlagVals == {0, 1, 65534, 65535}

\* struct scc with the fields the three checks read: the rtt 1.5 ms above or
\* equal to the first and minimum rtt, the threshold as set by init or raised
\* once, the ACKed bytes grown by two segments or unchanged.
FlagScc(unfair, stable, high, epoch, grown) ==
    [spline_init(Ctx(ZeroSlot, Host0), 0, U32_MAX).s EXCEPT
        !.unfair_flag = unfair,
        !.stable_flag = stable,
        !.last_rtt = N(50000),
        !.last_min_rtt = N(50000),
        !.curr_rtt = IF high THEN N(51500) ELSE N(50000),
        !.rtt_epoch = epoch,
        !.last_ack = N(14480),
        !.curr_ack = IF grown THEN N(17376) ELSE N(14480)]

InitFlags ==
    /\ \E unfair \in FlagVals, stable \in FlagVals, high \in BOOLEAN,
          epoch \in {4000, 8000}, grown \in BOOLEAN :
           scc = FlagScc(unfair, stable, high, epoch, grown)
    /\ tp = Host0
    /\ oops = FALSE
    /\ divz = FALSE
    /\ op = "init"
    /\ decided = FALSE
    /\ decisions = 0
    /\ calls = 0
    /\ prof = 0
    /\ changes = 0
    /\ ret = Z

FairnessCheck ==
    /\ calls < MaxFlagCalls
    /\ scc' = fairness_check(scc)
    /\ op' = "fairness_check"
    /\ calls' = calls + 1
    /\ UNCHANGED <<tp, oops, divz, decided, decisions, prof, changes, ret>>

StableCheck ==
    /\ calls < MaxFlagCalls
    /\ scc' = stable_check(scc)
    /\ op' = "stable_check"
    /\ calls' = calls + 1
    /\ UNCHANGED <<tp, oops, divz, decided, decisions, prof, changes, ret>>

NextFlags == FairnessCheck \/ StableCheck

SpecFlags == InitFlags /\ [][NextFlags]_vars

----------------------------------------------------------------------------
(* A connection in mid-life, one ACK before a phase decision.  The counters *)
(* that take many ACKs to move are drawn instead of being counted up to:    *)
(* the flag counters, the lost count at the start of the long-term          *)
(* interval, the rtt threshold after no or seven raises, the round counter  *)
(* fresh or one short of 50, the bytes the last ACK delivered, and the      *)
(* host's window below or at the packets in flight.                         *)

MaxMidCalls == 2

\* The connection after init and one steady ACK.
MidBase ==
    Then(spline_init(Ctx(ZeroSlot, Host0), 0, U32_MAX),
         LAMBDA c : Then(Ctx(c.s, HostAck(c.h, Steady)),
                         LAMBDA c1 : spline_main(c1, Sample(c.h, Steady), 0)))

InitMid ==
    /\ \E unfair \in {5, 6}, stable \in {5, 6}, lost \in {0, 10, 30},
          epoch \in {4000, 32000}, round \in {0, 49}, ack \in {13032, 14480},
          cwnd \in {4, 10}, c \in {MidBase} :
           /\ scc = [c.s EXCEPT !.unfair_flag = unfair,
                                !.stable_flag = stable,
                                !.lt_last_lost = N(lost),
                                !.rtt_epoch = epoch,
                                !.high_round = round,
                                !.curr_ack = N(ack),
                                !.epp = c.s.EPOCH_ROUND - 1]
           /\ tp = [c.h EXCEPT !.lost = N(lost), !.snd_cwnd = N(cwnd)]
    /\ oops = FALSE
    /\ divz = FALSE
    /\ op = "on_ack"
    /\ decided = FALSE
    /\ decisions = 0
    /\ calls = 0
    /\ prof = 1
    /\ changes = 0
    /\ ret = Z

MidAck(i) ==
    /\ calls < MaxMidCalls
    /\ Ack(i, {0})

NextMid == \E i \in {1, 2} : MidAck(i)

SpecMid == InitMid /\ [][NextMid]_vars

----------------------------------------------------------------------------
(* A connection that has just switched to the long-term bandwidth: eight    *)
(* round trips on a path that loses 2 packets in 10 have ended two sampling *)
(* intervals of equal bandwidth.  stable_flag, which takes many ACKs to     *)
(* move, is drawn.  The path then stays as it is or stops losing, every ACK *)
(* ends a round trip, and calls counts the ACKs since the switch.           *)

MaxUseCalls == 50

LightLoss == [Lossy EXCEPT !.d_lost = N(2)]

RECURSIVE Acks(_, _, _)
\* n calls of cong_control on ACKs of profile p.
Acks(c, p, n) ==
    IF n = 0 THEN c
    ELSE Then(Ctx(c.s, HostAck(c.h, p)),
              LAMBDA c1 : Then(spline_main(c1, Sample(c.h, p), 0),
                               LAMBDA d : Acks(d, p, n - 1)))

InitUse ==
    /\ \E stable \in {200, 1000},
          c \in {Then(spline_init(Ctx(ZeroSlot, Host0), 0, U32_MAX),
                      LAMBDA c0 : Acks(c0, LightLoss, 2 * bbr_lt_intvl_min_rtts))} :
           /\ scc = [c.s EXCEPT !.stable_flag = stable]
           /\ tp = c.h
    /\ oops = FALSE
    /\ divz = FALSE
    /\ op = "on_ack"
    /\ decided = FALSE
    /\ decisions = 0
    /\ calls = 0
    /\ prof = 0
    /\ changes = 0
    /\ ret = Z

\* cong_control on an ACK of the light-loss path (i = 1) or of the steady one.
UseAck(i) ==
    /\ ~oops
    /\ calls < MaxUseCalls
    /\ prof = 0 \/ prof = i
    /\ \E c0 \in {Ctx(scc, tp)}, p \in {IF i = 1 THEN LightLoss ELSE Steady} :
          \E c \in {Acks(c0, p, 1)} : Commit(c)
    /\ decided' = ((scc.epp + 1) % 64 = scc.EPOCH_ROUND /\ scc'.epp = 0)
    /\ decisions' = IF decided' THEN decisions + 1 ELSE decisions
    /\ op' = "on_ack"
    /\ calls' = calls + 1
    /\ prof' = i
    /\ UNCHANGED changes

NextUse == \E i \in {1, 2} : UseAck(i)

SpecUse == InitUse /\ [][NextUse]_vars

----------------------------------------------------------------------------
(* The long-term sampler on a path that changes: every ACK is steady,      *)
(* lossy or app-limited, the path may change after the 1st, 3rd, 7th or    *)
(* 16th ACK, and after the 3rd or the 7th the retransmission timer may     *)
(* fire once, the host marking one packet lost before it reports           *)
(* TCP_CA_Loss.                                                            *)

MaxSampCalls == 17

SampChangeAt == {1, 3, 7, 16}
SampTimeoutAt == {3, 7}

SampAck(i) ==
    /\ calls < MaxSampCalls
    /\ prof = 0 \/ prof = i \/ calls \in SampChangeAt
    /\ Ack(i, {0})

SampTimeout ==
    /\ ~oops
    /\ calls \in SampTimeoutAt
    /\ op = "on_ack"
    /\ Commit(spline_set_state(Ctx(scc, [tp EXCEPT !.lost = U32(Add(@, N(1)))]),
                               TCP_CA_Loss))
    /\ op' = "set_state"
    /\ changes' = changes + 1
    /\ UNCHANGED <<decided, decisions, calls, prof>>

NextSamp ==
    \/ \E i \in {1, 2, 3} : SampAck(i)
    \/ SampTimeout

SpecSamp == Init /\ [][NextSamp]_vars

----------------------------------------------------------------------------
(* A connection in mid-life at the final choice of the window: the flag     *)
(* counters and loss_cnt, which take hundreds of ACKs to move, are drawn on *)
(* both sides of the thresholds next_cwnd tests (a connection that has     *)
(* counted losses has lost 10 packets), the first ACK takes a               *)
(* phase decision, and the ACKs are steady, lossy or idle.                  *)

MaxFuseCalls == 2

InitFuse ==
    /\ \E unfair \in {5, 600, 2500}, stable \in {5, 250, 400}, loss \in {0, 5, 6, 51},
          cwnd \in {4, 20}, c \in {MidBase} :
           /\ scc = [c.s EXCEPT !.unfair_flag = unfair,
                                !.stable_flag = stable,
                                !.loss_cnt = loss,
                                !.lt_last_lost = N(IF loss = 0 THEN 0 ELSE 10),
                                !.epp = c.s.EPOCH_ROUND - 1]
           /\ tp = [c.h EXCEPT !.snd_cwnd = N(cwnd),
                               !.lost = N(IF loss = 0 THEN 0 ELSE 10)]
    /\ oops = FALSE
    /\ divz = FALSE
    /\ op = "on_ack"
    /\ decided = FALSE
    /\ decisions = 0
    /\ calls = 0
    /\ prof = 1
    /\ changes = 0
    /\ ret = Z

FuseAck(i) ==
    /\ calls < MaxFuseCalls
    /\ Ack(i, {0})

NextFuse == \E i \in {1, 2, 4} : FuseAck(i)

SpecFuse == InitFuse /\ [][NextFuse]_vars

----------------------------------------------------------------------------
(* The connection in mid-life, as above, whose host raises a cwnd event     *)
(* after an ACK: the transmission restarts or not, with the host app-       *)
(* limited or not.                                                          *)

MaxEvEvents == 1

EvEvent(tx_start, app_limited) ==
    /\ ~oops
    /\ calls > 0
    /\ changes < MaxEvEvents
    /\ \E c \in {spline_cwnd_event(Ctx(scc, [tp EXCEPT !.app_limited = app_limited]),
                                    tx_start)} :
          Commit(c)
    /\ op' = "cwnd_event"
    /\ changes' = changes + 1
    /\ UNCHANGED <<decided, decisions, calls, prof>>

NextEv ==
    \/ \E i \in {1, 2} : MidAck(i)
    \/ \E tx_start \in BOOLEAN, app_limited \in BOOLEAN : EvEvent(tx_start, app_limited)

SpecEv == InitMid /\ [][NextEv]_vars

----------------------------------------------------------------------------
(* A fresh connection on a path whose round-trip time moves: every ACK      *)
(* reports the steady path, one that is 1.5 ms slower and delivers two      *)
(* segments more, or one that is 3 ms slower and delivers four more.        *)

MaxJitCalls == 5

Late == [Steady EXCEPT !.srtt_us = N(412000), !.rtt_us = 51500, !.delivered = 12]
Later == [Steady EXCEPT !.srtt_us = N(424000), !.rtt_us = 53000, !.delivered = 14]

JitProfiles == <<Steady, Late, Later>>

JitAck(i) ==
    /\ ~oops
    /\ calls < MaxJitCalls
    /\ \E c0 \in {Ctx(scc, tp)}, p \in {JitProfiles[i]} :
          \E c \in {Acks(c0, p, 1)} : Commit(c)
    /\ decided' = ((scc.epp + 1) % 64 = scc.EPOCH_ROUND /\ scc'.epp = 0)
    /\ decisions' = IF decided' THEN decisions + 1 ELSE decisions
    /\ op' = "on_ack"
    /\ calls' = calls + 1
    /\ prof' = i
    /\ UNCHANGED changes

NextJit == \E i \in {1, 2, 3} : JitAck(i)

SpecJit == Init /\ [][NextJit]_vars

----------------------------------------------------------------------------
(* A long connection on a path that does not change (steady, lossy, idle or *)
(* clamped), followed over the longest first round (40 ACKs) and the        *)
(* longest later round (31 ACKs): the first decision draws 0 or 30, the     *)
(* later ones 30.                                                           *)

MaxEpochCalls == 75

EpochAck(i) ==
    /\ calls < MaxEpochCalls
    /\ prof = 0 \/ prof = i
    /\ Ack(i, IF decisions = 0 THEN RandVals ELSE {30})

NextEpoch == \E i \in {1, 2, 4, 8} : EpochAck(i)

SpecEpoch == Init /\ [][NextEpoch]_vars

----------------------------------------------------------------------------
(* A connection in mid-life on the path whose round-trip time moves: the    *)
(* flags, the threshold and its round counter, which take many ACKs to      *)
(* move, are drawn, and the last ACK was steady or 1.5 ms slower.           *)

MaxPairCalls == 2

InitPair ==
    /\ \E unfair \in {5, 65535}, stable \in {5, 65535}, rtt \in {50000, 51500},
          epoch \in {4000, 12000}, round \in {0, 49}, cwnd \in {4, 10},
          c \in {MidBase} :
           /\ scc = [c.s EXCEPT !.unfair_flag = unfair,
                                !.stable_flag = stable,
                                !.curr_rtt = N(rtt),
                                !.rtt_epoch = epoch,
                                !.high_round = round]
           /\ tp = [c.h EXCEPT !.snd_cwnd = N(cwnd)]
    /\ oops = FALSE
    /\ divz = FALSE
    /\ op = "on_ack"
    /\ decided = FALSE
    /\ decisions = 0
    /\ calls = 0
    /\ prof = 1
    /\ changes = 0
    /\ ret = Z

PairAck(i) ==
    /\ calls < MaxPairCalls
    /\ JitAck(i)

NextPair == \E i \in {1, 2, 3} : PairAck(i)

SpecPair == InitPair /\ [][NextPair]_vars

----------------------------------------------------------------------------
(* The module at the top of the tree, src/tcp_spline.c: an earlier revision *)
(* with its own struct scc and its own entry points.  Its names carry the   *)
(* prefix v1_ here, the state block is held in scc and the host socket in   *)
(* tp as above, and a division by zero is threaded through a context in the *)
(* same way.                                                                *)

V1_SPLINE_SCALE == 10
V1_EPOCH_ROUND == 4
V1_SCALE_BW_RTT == 4
V1_BW_SCALE == 12
V1_MIN_RTT_US == 50000
V1_MIN_BW == 1448
V1_SCC_MIN_MSS == 576
V1_SCC_MIN_RTT_ALLOWED_US == 50000
V1_SCC_MIN_SND_CWND == 2896
TCP_CA_Open == 0

\* (last_min_rtt * 20 << 4) < curr_rtt, in u32.
v1_overload(s) ==
    Lt(U32(Shl(U32(Mul(s.last_min_rtt, N(20))), V1_SCALE_BW_RTT)), s.curr_rtt)

v1_is_loss(s) == s.prev_ca_state = TCP_CA_Loss /\ Lt(s.curr_ack, s.last_ack)

v1_probe_bw(s) ==
    LET grow(x, up, flat) ==
            IF Lt(x.last_ack, x.curr_ack)
            THEN U32(Shr(U64(Mul(Add(x.curr_cwnd, x.curr_ack), N(up))), V1_SCALE_BW_RTT))
            ELSE U32(Shr(U64(Mul(x.curr_cwnd, N(flat))), V1_SCALE_BW_RTT))
        grow32(x, up, flat) ==
            IF Lt(x.last_ack, x.curr_ack)
            THEN Shr(U32(Mul(U32(Add(x.curr_cwnd, x.curr_ack)), N(up))), V1_SCALE_BW_RTT)
            ELSE Shr(U32(Mul(x.curr_cwnd, N(flat))), V1_SCALE_BW_RTT)
        ack_drop(x) ==
            Lt(Shl(x.curr_ack, V1_SCALE_BW_RTT),
               Shr(U64(Mul(Shl(x.last_ack, V1_SCALE_BW_RTT), N(3))), 2))
        stable_rtt_bw(x) ==
            IF \/ Ge(x.fairness_rat, N(3 * 2^V1_BW_SCALE))
               \/ Lt(Shl(x.bytes_in_flight, 1), x.curr_cwnd)
            THEN [x EXCEPT !.curr_cwnd = MaxW(grow(x, 18, 18), N(V1_SCC_MIN_MSS))]
            ELSE x
        fairness_rtt_bw(x) ==
            IF Lt(x.fairness_rat, N(3))
            THEN [x EXCEPT !.curr_cwnd = MaxW(grow(x, 8, 14), N(V1_SCC_MIN_MSS))]
            ELSE x
        overload_rtt_bw(x) ==
            IF v1_overload(x)
            THEN LET w1 == grow32(x, 8, 14)
                     w2 == IF ack_drop(x)
                           THEN Shr(U32(Mul(w1, N(V1_SPLINE_SCALE))), V1_SCALE_BW_RTT)
                           ELSE w1
                 IN  [x EXCEPT !.curr_cwnd = MaxW(w2, N(V1_SCC_MIN_MSS))]
            ELSE x
    IN  Then(stable_rtt_bw(s),
             LAMBDA s1 : Then(fairness_rtt_bw(s1), LAMBDA s2 : overload_rtt_bw(s2)))

v1_probe_rtt(s) ==
    LET grow(x, up, flat) ==
            IF Lt(x.last_ack, x.curr_ack)
            THEN U32(Shr(U64(Mul(Add(x.curr_cwnd, x.curr_ack), N(up))), V1_SCALE_BW_RTT))
            ELSE U32(Shr(U64(Mul(x.curr_cwnd, N(flat))), V1_SCALE_BW_RTT))
        ack_drop(x) ==
            Lt(Shl(x.curr_ack, V1_SCALE_BW_RTT),
               Shr(U64(Mul(Shl(x.last_ack, V1_SCALE_BW_RTT), N(3))), 2))
        stable_rtt(x) ==
            IF \/ Ge(x.fairness_rat, N(3))
               \/ Lt(Shl(x.bytes_in_flight, 2), x.min_cwnd)
            THEN [x EXCEPT !.curr_cwnd =
                     IF Lt(x.last_ack, x.curr_ack)
                     THEN MaxW(U32(Add(x.curr_cwnd, Shr(x.curr_ack, 1))), N(V1_SCC_MIN_MSS))
                     ELSE MaxW(x.curr_cwnd, N(V1_SCC_MIN_MSS))]
            ELSE x
        fairness_rtt(x) ==
            IF Lt(x.fairness_rat, N(3))
            THEN [x EXCEPT !.curr_cwnd = MaxW(grow(x, 6, 12), N(V1_SCC_MIN_MSS))]
            ELSE x
        overload_rtt(x) ==
            IF v1_overload(x)
            THEN LET w1 == grow(x, 6, 12)
                     w2 == IF ack_drop(x)
                           THEN U32(Shr(U64(Mul(w1, N(V1_SPLINE_SCALE))), V1_SCALE_BW_RTT))
                           ELSE w1
                 IN  [x EXCEPT !.curr_cwnd = MaxW(w2, N(V1_SCC_MIN_MSS))]
            ELSE x
    IN  Then(stable_rtt(s),
             LAMBDA s1 : Then(fairness_rtt(s1), LAMBDA s2 : overload_rtt(s2)))

v1_update_min_rtt(s, h, rs) ==
    LET new_min_rtt == after(h.jiffies,
                             U32(Add(s.last_min_rtt_stamp, N(SCC_MIN_RTT_WIN_SEC * HZ))))
        curr_rtt == IF h.srtt_us # Z THEN Shr(h.srtt_us, 3)
                    ELSE N(V1_SCC_MIN_RTT_ALLOWED_US)
        m1 == IF Lt(curr_rtt, s.last_min_rtt) \/ s.last_min_rtt = Z
              THEN curr_rtt ELSE s.last_min_rtt
        take == /\ rs.rtt_us > 0
                /\ (Lt(N(rs.rtt_us), m1) \/ (new_min_rtt /\ ~rs.is_ack_delayed))
        m2 == IF take THEN U32(N(rs.rtt_us)) ELSE m1
        m3 == IF m2 = Z THEN N(V1_SCC_MIN_RTT_ALLOWED_US) ELSE m2
        lower == Gt(m3, curr_rtt)
    IN  [s EXCEPT !.curr_rtt = curr_rtt,
                  !.last_min_rtt = IF lower THEN curr_rtt ELSE m3,
                  !.last_min_rtt_stamp =
                      IF take THEN (IF h.srtt_us # Z THEN h.srtt_us ELSE h.jiffies) ELSE @,
                  !.epp_min_rtt = IF lower THEN (@ + 1) % 256 ELSE @,
                  !.epp = (@ + 1) % 256]

v1_update_bytes_in_flight(s, h) ==
    [s EXCEPT !.bytes_in_flight = MinW(U64(Mul(h.packets_in_flight, s.mss)), U32_MAX)]

\* With spline_check_main, which it calls.
v1_update_last_acked_sacked_cwnd_mss(s, h, rs) ==
    LET mss == IF s.mss = Z THEN SCC_MIN_SEGMENT_SIZE ELSE s.mss
        valid == rs.delivered >= 0
        cwnd == U32(Mul(h.snd_cwnd, mss))
    IN  [s EXCEPT !.mss = mss,
                  !.delivered = IF h.delivered = Z THEN SCC_MIN_SEGMENT_SIZE
                                ELSE h.delivered,
                  !.last_ack = s.curr_ack,
                  !.curr_ack = IF valid THEN U32(Mul(N(rs.delivered), mss)) ELSE Z,
                  !.last_acked_sacked =
                      IF valid THEN U32(Mul(rs.acked_sacked, mss)) ELSE Z,
                  !.min_cwnd = N(V1_SCC_MIN_SND_CWND),
                  !.curr_cwnd = cwnd,
                  !.last_max_cwnd = MaxW(@, cwnd)]

v1_update_bandwidth_throughput(c) ==
    LET s == c.s
        idle == c.h.packets_in_flight = Z
        lm == IF s.last_min_rtt = Z THEN N(V1_SCC_MIN_RTT_ALLOWED_US) ELSE s.last_min_rtt
        scaled(bytes) == U64(Shl(U64(Mul(bytes, USEC_PER_SEC)), V1_BW_SCALE))
        throughput == IF idle THEN Z ELSE U32(Div(scaled(s.bytes_in_flight), lm))
        bw0 == IF s.curr_ack # Z THEN Div(scaled(s.curr_ack), lm)
               ELSE Div(scaled(s.last_acked_sacked), s.curr_rtt)
        beta == IF idle THEN U32(Shr(bw0, 4)) ELSE throughput
        ratio == IF beta = Z THEN N(1) ELSE U32(Add(Div(U32(bw0), beta), N(1)))
        drain == Gt(Shr(U64(Mul(throughput, N(14))), V1_SCALE_BW_RTT), bw0)
        bw1 == MaxW(bw0, Shr(U32(Mul(s.last_bw, N(3))), 2))
        bw2 == MinW(bw1, Shr(U32(Mul(s.last_bw, N(6))), 2))
        bw3 == IF s.last_bw = Z THEN bw0
               ELSE IF Gt(s.curr_rtt, U32(Shl(lm, 1))) THEN s.last_bw
               ELSE bw2
        bw4 == Shr(bw3, V1_BW_SCALE)
        begun == [s EXCEPT !.last_min_rtt = lm, !.throughput = throughput]
    IN  Fault([c EXCEPT !.s = begun], s.curr_ack = Z /\ s.curr_rtt = Z,
              [c EXCEPT !.s = [s EXCEPT
                  !.last_min_rtt = lm,
                  !.throughput = Shr(throughput, V1_BW_SCALE),
                  !.fairness_rat = ratio,
                  !.current_mode = IF drain THEN MODE_DRAIN_PROBE ELSE @,
                  !.last_bw = U32(bw4),
                  !.bw = MaxW(bw4, N(V1_MIN_BW))]])

v1_spline_max_cwnd(s) ==
    LET throughput == IF s.throughput = Z \/ U32(Shl(s.throughput, 2)) = Z
                      THEN N(1) ELSE s.throughput
        tmp == U64(Add(U64(Mul(s.fairness_rat, Div(s.bw, U32(Shl(throughput, 2))))),
                       IF Gt(s.curr_ack, s.last_ack) THEN Shr(s.curr_ack, 1)
                       ELSE Shl(SCC_MIN_SEGMENT_SIZE, 1)))
    IN  [s EXCEPT !.throughput = throughput,
                  !.max_could_cwnd = IF U32(tmp) = Z THEN s.min_cwnd ELSE U32(tmp)]

\* The divisor of div_u64 is a u32: spline_cwnd_gain's denom is cut to 32 bits.
v1_spline_cwnd_gain_den(s) ==
    LET rtt == IF s.last_min_rtt # Z THEN s.last_min_rtt ELSE N(V1_MIN_RTT_US)
        denom == Div(U64(Mul(s.bw, USEC_PER_SEC)), rtt)
    IN  U32(IF denom = Z THEN N(V1_MIN_BW) ELSE denom)

\* With spline_cwnd_gain, which it calls.
v1_spline_cwnd_next_gain(c) ==
    LET Next_gain(s1, g) ==
            LET denom == IF s1.last_min_rtt # Z THEN s1.last_min_rtt ELSE N(V1_MIN_RTT_US)
                tmp == U64(Mul(U64(Mul(g, s1.bw)), USEC_PER_SEC))
                cwnd == U32(Shr(Div(tmp, denom), V1_BW_SCALE))
            IN  Fault([c EXCEPT !.s = s1], v1_spline_cwnd_gain_den(s1) = Z,
                      [c EXCEPT !.s = [s1 EXCEPT
                          !.cwnd_gain = g,
                          !.curr_cwnd =
                              IF v1_is_loss(s1) THEN MinW(cwnd, s1.max_could_cwnd)
                              ELSE MaxW(cwnd, s1.max_could_cwnd)]])
        Gain(s1) ==
            Then(U32(Div(Shl(s1.curr_cwnd, V1_BW_SCALE), v1_spline_cwnd_gain_den(s1))),
                 LAMBDA g : Next_gain(s1, g))
    IN  Then(v1_spline_max_cwnd(c.s), LAMBDA s1 : Gain(s1))

v1_drain_probe(s) ==
    LET w1 == IF Gt(s.curr_cwnd, s.bw) THEN U32(s.bw) ELSE s.curr_cwnd
        w2 == IF Lt(s.last_ack, s.curr_ack)
              THEN U32(Shr(U64(Mul(Add(w1, s.curr_ack), N(12))), V1_SCALE_BW_RTT))
              ELSE U32(Shr(U64(Mul(w1, N(14))), V1_SCALE_BW_RTT))
    IN  [s EXCEPT !.curr_cwnd = MaxW(w2, s.min_cwnd)]

v1_start_probe(s) ==
    LET new_cwnd == MinW(Add(Shl(s.curr_cwnd, 1), SCC_MIN_SEGMENT_SIZE), U32_MAX)
    IN  [s EXCEPT !.curr_cwnd =
            IF v1_is_loss(s) /\ Gt(new_cwnd, s.max_could_cwnd) THEN s.max_could_cwnd
            ELSE MaxW(new_cwnd, s.max_could_cwnd)]

\* With check_start_probe, which writes MODE_START_PROBE where it reads it,
\* check_drain_probe and check_epoch_probes_rtt_bw.
v1_check_probes(s) ==
    LET s1 == [s EXCEPT !.current_mode =
                  IF v1_overload(s) /\ v1_is_loss(s) THEN MODE_DRAIN_PROBE
                  ELSE MODE_PROBE_BW]
    IN  IF s1.epp = V1_EPOCH_ROUND
        THEN [s1 EXCEPT !.epp = 0,
                        !.epp_min_rtt = 0,
                        !.current_mode = IF s1.epp_min_rtt # 0 THEN MODE_PROBE_BW
                                         ELSE MODE_PROBE_RTT]
        ELSE s1

v1_update_probes(c) ==
    LET Gain(s2) == Then([c EXCEPT !.s = s2], LAMBDA c2 : v1_spline_cwnd_next_gain(c2))
        Probe(s1) ==
            CASE s1.current_mode = MODE_START_PROBE -> [c EXCEPT !.s = v1_start_probe(s1)]
              [] s1.current_mode = MODE_PROBE_BW ->
                    Then(v1_probe_bw(s1), LAMBDA s2 : Gain(s2))
              [] s1.current_mode = MODE_PROBE_RTT ->
                    Then(v1_probe_rtt(s1), LAMBDA s2 : Gain(s2))
              [] s1.current_mode = MODE_DRAIN_PROBE -> [c EXCEPT !.s = v1_drain_probe(s1)]
    IN  Then(v1_check_probes(c.s), LAMBDA s1 : Probe(s1))

\* With spline_update, which it calls first.
v1_spline_cwnd_send(c, rs) ==
    LET Send(c5, mss) ==
            LET segs == Div(c5.s.curr_cwnd, mss)
                cwnd_segments ==
                    IF Lt(segs, Add(Div(N(V1_SCC_MIN_SND_CWND), mss), N(1)))
                    THEN Div(Sub(U32(Add(N(V1_SCC_MIN_SND_CWND), mss)), N(1)), mss)
                    ELSE segs
            IN  [c5 EXCEPT !.s.mss = mss,
                           !.h.snd_cwnd = MinW(cwnd_segments, c5.h.snd_cwnd_clamp)]
        Probes(c3) ==
            Then(v1_update_bandwidth_throughput(c3),
                 LAMBDA c4 : Then(v1_update_probes(c4),
                     LAMBDA c5 : Send(c5, IF c5.s.mss = Z THEN SCC_MIN_SEGMENT_SIZE
                                          ELSE c5.s.mss)))
        Update(s1) ==
            Then(v1_update_bytes_in_flight(s1, c.h),
                 LAMBDA s2 : Then(v1_update_last_acked_sacked_cwnd_mss(s2, c.h, rs),
                     LAMBDA s3 : Then([c EXCEPT !.s = s3], LAMBDA c3 : Probes(c3))))
    IN  Then(v1_update_min_rtt(c.s, c.h, rs), LAMBDA s1 : Update(s1))

v1_spline_cong_control(c, rs) ==
    Then([c EXCEPT !.s.mss = c.h.mss_cache,
                   !.s.curr_cwnd = U32(Mul(c.h.snd_cwnd, c.h.mss_cache)),
                   !.h.snd_ssthresh = TCP_INFINITE_SSTHRESH,
                   !.s.delivered = c.h.delivered,
                   !.s.min_cwnd = N(V1_SCC_MIN_SND_CWND),
                   !.s.prev_ca_state = TCP_CA_Open,
                   !.s.current_mode = MODE_START_PROBE,
                   !.s.last_min_rtt_stamp = c.h.jiffies],
         LAMBDA c1 : v1_spline_cwnd_send(c1, rs))

v1_spline_undo_cwnd(c) ==
    [c EXCEPT !.s.curr_cwnd = U32(Mul(c.h.snd_cwnd, SCC_MIN_SEGMENT_SIZE)),
              !.ret = c.h.snd_cwnd]

v1_spline_set_state(c, new_state) ==
    [c EXCEPT !.s.prev_ca_state = IF new_state = TCP_CA_Loss THEN TCP_CA_Loss
                                  ELSE TCP_CA_Open]

\* With spline_save_cwnd, which it calls.
v1_spline_ssthresh(c) ==
    [c EXCEPT !.s.prior_cwnd =
                  IF /\ c.s.prev_ca_state < TCP_CA_Recovery
                     /\ c.s.current_mode # MODE_PROBE_RTT
                  THEN c.h.snd_cwnd
                  ELSE MaxW(@, N(V1_SCC_MIN_SND_CWND)),
              !.ret = c.h.snd_ssthresh]

\* event: TRUE for CA_EVENT_CWND_RESTART and CA_EVENT_TX_START.
v1_spline_cwnd_event(c, restart) ==
    IF restart
    THEN [c EXCEPT !.s.prev_ca_state = TCP_CA_Open,
                   !.s.curr_cwnd = N(V1_SCC_MIN_SND_CWND),
                   !.s.current_mode = MODE_START_PROBE,
                   !.s.mss = IF @ = Z THEN SCC_MIN_SEGMENT_SIZE ELSE @]
    ELSE c

\* The zeroed private area after spline_init.
v1_spline_init ==
    [curr_cwnd |-> N(V1_SCC_MIN_SND_CWND), throughput |-> Z, bw |-> Z,
     last_max_cwnd |-> Z, last_min_rtt_stamp |-> Z, last_bw |-> Z, last_min_rtt |-> Z,
     last_ack |-> Z, prev_ca_state |-> TCP_CA_Open, last_acked_sacked |-> Z,
     mss |-> SCC_MIN_SEGMENT_SIZE, prior_cwnd |-> Z, min_cwnd |-> Z, curr_rtt |-> Z,
     cwnd_gain |-> Z, max_could_cwnd |-> Z, curr_ack |-> Z, fairness_rat |-> Z,
     current_mode |-> MODE_START_PROBE, epp_min_rtt |-> 0, epp |-> 0,
     delivered |-> Z, bytes_in_flight |-> Z]

\* Bounds of the exploration.
MaxV1Calls == 3
MaxV1Events == 2

\* A short round trip measured on an ACK that delivers less than the last.
FastPath == [AppLimited EXCEPT !.rtt_us = 100]

V1Profiles == <<Steady, AppLimited, Idle, TinySrtt, NoSrtt, NoSample, FastPath>>

InitV1 ==
    /\ scc = v1_spline_init
    /\ tp = Host0
    /\ oops = FALSE
    /\ divz = FALSE
    /\ op = "init"
    /\ decided = FALSE
    /\ decisions = 0
    /\ calls = 0
    /\ prof = 0
    /\ changes = 0
    /\ ret = Z

V1CongControl(i) ==
    /\ ~oops
    /\ calls < MaxV1Calls
    /\ \E c0 \in {Ctx(scc, HostAck(tp, V1Profiles[i]))}, rs \in {Sample(tp, V1Profiles[i])} :
          \E c \in {v1_spline_cong_control(c0, rs)} : Commit(c)
    /\ decided' = (scc.epp + 1 = V1_EPOCH_ROUND /\ scc'.epp = 0)
    /\ decisions' = IF decided' THEN decisions + 1 ELSE decisions
    /\ op' = "cong_control"
    /\ calls' = calls + 1
    /\ prof' = i
    /\ UNCHANGED changes

V1Event(c, name) ==
    /\ ~oops
    /\ changes < MaxV1Events
    /\ Commit(c)
    /\ op' = name
    /\ changes' = changes + 1
    /\ UNCHANGED <<decided, decisions, calls, prof>>

NextV1 ==
    \/ \E i \in 1..Len(V1Profiles) : V1CongControl(i)
    \/ \E new_state \in {TCP_CA_Open, TCP_CA_Recovery, TCP_CA_Loss} :
          V1Event(v1_spline_set_state(Ctx(scc, tp), new_state), "set_state")
    \/ \E restart \in BOOLEAN :
          V1Event(v1_spline_cwnd_event(Ctx(scc, tp), restart), "cwnd_event")
    \/ V1Event(v1_spline_undo_cwnd(Ctx(scc, tp)), "undo_cwnd")
    \/ V1Event(v1_spline_ssthresh(Ctx(scc, tp)), "ssthresh")

SpecV1 == InitV1 /\ [][NextV1]_vars

----------------------------------------------------------------------------
(* Properties                                                              *)

\* The last call was cong_control and it returned.
AckDone == op = "on_ack" /\ ~oops

\* The long-term detector's fields of struct scc.
LtState(s) ==
    <<s.lt_bw, s.lt_use_bw, s.lt_is_sampling, s.lt_rtt_cnt, s.lt_last_stamp,
      s.lt_last_delivered, s.lt_last_lost>>

\* C1: after every on_ack the congestion window written to the host is at
\* most the host's snd_cwnd_clamp.
C1_CwndAtMostClamp == AckDone => Le(tp.snd_cwnd, tp.snd_cwnd_clamp)

\* An on_ack whose window the clamp cut: the clamp is 4 and the window is 4.
C1_Witness == AckDone /\ tp.snd_cwnd_clamp = N(4) /\ tp.snd_cwnd = N(4)

\* C2: after every on_ack the congestion window written to the host is at
\* least SCC_MIN_SND_CWND.
C2_CwndAtLeastMin == AckDone => Ge(tp.snd_cwnd, SCC_MIN_SND_CWND)

\* C3: after every on_ack since init, the first one included,
\* 16646946 <= fairness_rat <= 21989530.
C3_FairnessRatInBand ==
    AckDone => Ge(scc.fairness_rat, N(16646946)) /\ Le(scc.fairness_rat, N(21989530))

\* C4: after every on_ack last_min_rtt is strictly greater than 0.
C4_MinRttPositive == AckDone => scc.last_min_rtt # Z

\* C5: stable_flag and unfair_flag never decrease: an increment at the
\* counter's maximum holds the value instead of wrapping to 0.
C5_FlagsNeverDecrease ==
    [][scc'.unfair_flag >= scc.unfair_flag /\ scc'.stable_flag >= scc.stable_flag]_vars

\* C6: an on_ack that starts with loss_cnt = 255 leaves loss_cnt at 255 or,
\* after the tf-driven decrement, at 254; loss_cnt never wraps to 0.
C6_LossCntSaturates ==
    [][scc.loss_cnt = 255 /\ op' = "on_ack" /\ ~oops' => scc'.loss_cnt \in {254, 255}]_vars

\* C7: at the end of every on_ack, if lt_use_bw is true then pacing_gain is
\* BBR_UNIT.
C7_LtBwUnitGain == AckDone /\ scc.lt_use_bw => scc.pacing_gain = BBR_UNIT

\* C8: from the first phase decision onward EPOCH_ROUND is within 1 .. 31.
C8_EpochRoundRange == decisions > 0 => scc.EPOCH_ROUND \in 1..31

\* A decision has drawn the largest random value.
C8_Witness == decisions > 0 /\ scc.EPOCH_ROUND = 31

\* C9: right after init the connection is in START with start_phase set, and
\* the first phase decision sets EPOCH_ROUND to 20 and clears start_phase.
C9_Bootstrap ==
    /\ op = "init" => scc.current_mode = MODE_START_PROBE /\ scc.start_phase
    /\ AckDone /\ decided /\ decisions = 1 => scc.EPOCH_ROUND = 20 /\ ~scc.start_phase

\* C10: current_mode changes only in an on_ack that takes the phase decision
\* (epp = EPOCH_ROUND after the increment), one decision per on_ack; every
\* other on_ack and set_state, cwnd_event, undo_cwnd and ssthresh leave it.
C10_ModeChangesOnDecision ==
    [][/\ scc'.current_mode # scc.current_mode => op' = "on_ack" /\ decided'
       /\ decisions' <= decisions + 1
       /\ decisions' # decisions => op' = "on_ack"]_vars

\* A phase decision has moved the connection out of START.
C10_Witness == AckDone /\ decided /\ scc.current_mode # MODE_START_PROBE

C12_InvalidSampleSkipsBw ==
    [][/\ op' = "on_ack" /\ ~oops'
       /\ (Profiles[prof'].delivered < 0 \/ Profiles[prof'].interval_us <= 0)
       => /\ scc'.bw = scc.bw
          /\ scc'.delivered = scc.delivered
          /\ scc'.rtt_cnt = scc.rtt_cnt
          /\ LtState(scc') = LtState(scc)
          /\ scc'.curr_rtt = IF tp'.srtt_us # Z THEN Shr(tp'.srtt_us, 3) ELSE MIN_RTT_US
          /\ scc'.last_rtt = IF tp'.srtt_us # Z /\ scc.curr_rtt = Z
                             THEN scc'.curr_rtt ELSE scc.curr_rtt
          /\ scc'.epp = IF decided' THEN 0 ELSE (scc.epp + 1) % 64
          /\ scc'.unfair_flag =
                 fairness_check([scc' EXCEPT !.unfair_flag = scc.unfair_flag,
                                             !.rtt_epoch = scc.rtt_epoch]).unfair_flag
          /\ scc'.stable_flag =
                 stable_check([scc' EXCEPT !.stable_flag = scc.stable_flag]).stable_flag
          /\ scc'.loss_cnt =
                 loss_rate(Ctx([scc' EXCEPT !.loss_cnt = scc.loss_cnt], tp')).s.loss_cnt]_vars

\* A call without a sample (delivered = -1) on a connection that has a
\* bandwidth estimate and has counted round trips; the call counted as unfair.
C12_Witness ==
    /\ AckDone /\ Profiles[prof].delivered < 0
    /\ scc.bw # Z /\ scc.rtt_cnt # Z
    /\ scc.unfair_flag = calls

\* C13: an on_ack whose sample has delivered = 0 and acked_sacked = 0, made
\* when no host clock or counter has moved since the previous on_ack, leaves
\* the host's congestion window and pacing rate as they were, in every mode.
C13_IdleAckChangesNothing ==
    [][/\ op = "on_ack" /\ op' = "on_ack" /\ ~oops'
       /\ Profiles[prof'].delivered = 0 /\ Profiles[prof'].acked_sacked = Z
       /\ HostAck(tp, Profiles[prof']) = tp
       => /\ tp'.snd_cwnd = tp.snd_cwnd
          /\ tp'.sk_pacing_rate = tp.sk_pacing_rate]_vars

\* C14: undo_cwnd, in any state, returns the long-term detector to idle
\* (lt_use_bw, lt_bw, lt_is_sampling and lt_rtt_cnt cleared, the interval
\* anchors read from the host), returns the host's cwnd, and changes neither
\* the host nor current_mode nor the unfair, stable and loss counters.
C14_UndoCwndResetsLt ==
    [][op' = "undo_cwnd"
       => /\ LtState(scc') = <<Z, FALSE, FALSE, 0,
                                U32(Div(tp.delivered_mstamp, USEC_PER_MSEC)),
                                tp.delivered, tp.lost>>
          /\ ret' = tp.snd_cwnd
          /\ tp' = tp
          /\ scc'.current_mode = scc.current_mode
          /\ scc'.unfair_flag = scc.unfair_flag
          /\ scc'.stable_flag = scc.stable_flag
          /\ scc'.loss_cnt = scc.loss_cnt]_vars

\* undo_cwnd has been called after ten lossy ACKs, during which the detector
\* had switched to the long-term bandwidth; the anchors hold the host's counts.
C14_Witness ==
    /\ op = "undo_cwnd" /\ prof = 2 /\ calls = 10
    /\ ~scc.lt_use_bw /\ scc.lt_last_lost = tp.lost /\ tp.lost = N(100)
    /\ ret = tp.snd_cwnd

\* C15: when every sample over 16 consecutive round trips is not app-limited
\* and reports total loss, lt_use_bw is true by the 16th round.
C15_TotalLossActivates == calls >= 4 * bbr_lt_intvl_min_rtts => scc.lt_use_bw

\* C15 as the code has it: the detector activates when two successive sampling
\* intervals show bandwidths within 1/8 of each other; at an unchanging
\* delivery rate that is the 8th round of total loss.
C15_SteadyTotalLossActivates ==
    changes = 0 /\ calls >= 2 * bbr_lt_intvl_min_rtts => scc.lt_use_bw

\* Eight rounds of total loss at 10 packets per round have switched the
\* connection to the long-term bandwidth.
C15_Witness ==
    AckDone /\ prof = 2 /\ changes = 0 /\ calls = 2 * bbr_lt_intvl_min_rtts /\ scc.lt_use_bw

\* C16: once has_seen_rtt is set, no on_ack and no cwnd_event lowers the
\* host's pacing rate: a computed rate is installed only if it is greater
\* than the installed one.
C16_PacingRateOnlyRises ==
    [][scc.has_seen_rtt /\ op' \in {"on_ack", "cwnd_event"}
          => Ge(tp'.sk_pacing_rate, tp.sk_pacing_rate)]_vars

\* An on_ack on a host whose sk_max_pacing_rate has dropped below the
\* installed rate: the computed rate is at most the cap and is not installed.
C16_Witness ==
    /\ AckDone /\ scc.has_seen_rtt /\ calls > 1
    /\ Gt(tp.sk_pacing_rate, tp.sk_max_pacing_rate)

\* C17: every pacing rate written to the host, by init, on_ack or cwnd_event,
\* is at most the host's sk_max_pacing_rate at the time of the write.
C17_WrittenRateAtMostMax ==
    /\ op = "init" => Le(tp.sk_pacing_rate, tp.sk_max_pacing_rate)
    /\ [][tp'.sk_pacing_rate # tp.sk_pacing_rate
             => Le(tp'.sk_pacing_rate, tp'.sk_max_pacing_rate)]_vars

\* The first on_ack of a connection capped at 100000 bytes per second has
\* written the cap itself.
C17_Witness ==
    /\ AckDone /\ calls = 1
    /\ tp.sk_max_pacing_rate = N(100000) /\ tp.sk_pacing_rate = N(100000)

\* C18: at the end of every on_ack pacing_gain is the gain of current_mode:
\* 550 in PROBE_BW, 250 in PROBE_RTT, 100 in DRAIN and 256 in START.
C18_PacingGainOfMode ==
    AckDone =>
        scc.pacing_gain = CASE scc.current_mode = MODE_PROBE_BW -> N(550)
                            [] scc.current_mode = MODE_PROBE_RTT -> N(250)
                            [] scc.current_mode = MODE_DRAIN_PROBE -> N(100)
                            [] scc.current_mode = MODE_START_PROBE -> N(256)

\* An on_ack has ended in PROBE_RTT with pacing_gain 250.
C18_Witness ==
    AckDone /\ scc.current_mode = MODE_PROBE_RTT /\ scc.pacing_gain = N(250)

\* C19: at the end of every on_ack that finishes in DRAIN, cwnd_gain is
\* scc_drain_gain = 5646946.
C19_DrainCwndGain ==
    AckDone /\ scc.current_mode = MODE_DRAIN_PROBE => scc.cwnd_gain = scc_drain_gain

\* C20: from init, under identical loss-free samples that are not
\* app-limited (delivered = 10, interval_us = 10000, rtt_us = 50000), the mode
\* is START through the first 20 calls, the first phase decision selects
\* PROBE_BW, and the cwnd after 20 calls is at least SCC_MIN_SND_CWND + 20 * 10.
C20_StartupRamp ==
    prof = 1 /\ changes = 0 /\ ~oops =>
        /\ calls <= 20 /\ ~decided => scc.current_mode = MODE_START_PROBE
        /\ calls < 20 => ~decided
        /\ decided /\ decisions = 1 => scc.current_mode = MODE_PROBE_BW
        /\ calls = 20 => Ge(tp.snd_cwnd, U32(Add(SCC_MIN_SND_CWND, N(20 * 10))))

\* C21: an on_ack whose sample reports no losses and in which
\* tf = percent_gain(lt_last_lost, stable_flag, unfair_flag) > thresh_tf does
\* not raise loss_cnt, whatever loss_cnt was, 0 and 1 included.
C21_LossCntNotRaised ==
    [][/\ op' = "on_ack" /\ ~oops' /\ ~Profiles[prof'].losses
       /\ Gt(tf_of(scc'), thresh_tf)
       => scc'.loss_cnt <= scc.loss_cnt]_vars

\* C21 as the code has it: such an on_ack does not raise a loss_cnt of 1 or
\* more; a loss_cnt of 0 it raises to 1 when the host's lost count has moved
\* since the detector's anchor.
C21_LossCntNotRaisedFromOne ==
    [][/\ op' = "on_ack" /\ ~oops' /\ ~Profiles[prof'].losses
       /\ Gt(tf_of(scc'), thresh_tf)
       /\ scc.loss_cnt >= 1
       => scc'.loss_cnt <= scc.loss_cnt]_vars

\* The second ACK of a connection, loss-free with tf above thresh_tf, after a
\* first one that reported losses: loss_cnt was counted up and down, and is 1.
C21_Witness ==
    /\ AckDone /\ calls = 2 /\ changes = 1 /\ prof = 1
    /\ Gt(tf_of(scc), thresh_tf)
    /\ tp.lost # scc.lt_last_lost
    /\ scc.loss_cnt = 1

\* C22: a product that exceeds the u32 range is stored saturated at 2^32 - 1:
\* after an on_ack that ran spline_gain, if cwnd_gain * bandwidth * rtt is
\* above 2^32 - 1 then gain is 2^32 - 1.
C22_GainSaturates ==
    AckDone /\ ~divz /\ scc.current_mode # MODE_START_PROBE
    /\ Gt(U64(Mul(U64(Mul(scc.cwnd_gain, U32(bandwidth(scc)))), spline_gain_rtt(scc))),
          U32_MAX)
    => scc.gain = U32_MAX

\* C23: no entry point ever divides by zero: whatever the host passes, every
\* call completes without having evaluated a division whose divisor is 0.
C23_NoDivisionByZero ==
    op # "init" => ~divz /\ ~oops

\* C24: in src/tcp_spline.c a cong_control call made while the connection is
\* in MODE_START_PROBE runs start_probe: the call ends in MODE_START_PROBE with
\* curr_cwnd twice the window it was handed plus one minimum segment size,
\* bounded by max_could_cwnd under loss.
C24_StartProbeRuns ==
    [][/\ op' = "cong_control" /\ ~oops'
       /\ scc.current_mode = MODE_START_PROBE
       => /\ scc'.current_mode = MODE_START_PROBE
          /\ scc'.curr_cwnd =
                v1_start_probe([scc' EXCEPT !.curr_cwnd =
                                   U32(Mul(tp.snd_cwnd, scc'.mss))]).curr_cwnd]_vars

\* C25: in src/tcp_spline.c the cong_control call that follows a TCP_CA_Loss
\* notification runs in MODE_DRAIN_PROBE when it finds curr_rtt above
\* (last_min_rtt * 20) << 4, hence above 1.25 times last_min_rtt, and fewer
\* bytes newly delivered than the call before.
C25_DrainAfterLoss ==
    [][/\ op = "set_state" /\ scc.prev_ca_state = TCP_CA_Loss
       /\ op' = "cong_control" /\ ~oops'
       /\ v1_overload(scc') /\ Lt(scc'.curr_ack, scc'.last_ack)
       /\ Gt(Mul(scc'.curr_rtt, N(16)), Mul(scc'.last_min_rtt, N(20)))
       => scc'.current_mode = MODE_DRAIN_PROBE]_vars

\* C26: at a phase decision where the DRAIN override does not apply (rtt_check
\* or ack_check holds, or lt_last_lost is at most 24), the new mode is
\* PROBE_RTT if tf < thresh_tf or unfair_flag > stable_flag and PROBE_BW
\* otherwise, tf being percent_gain of the counters this on_ack has updated.
C26_ModeAtDecision ==
    /\ AckDone /\ decided /\ ~divz
    /\ ~(/\ ~rtt_check(scc) /\ ~ack_check(scc)
         /\ Gt(scc.lt_last_lost, N((scc_lt_loss_thresh + 1) * 6)))
    => scc.current_mode =
          IF Lt(tf_of(scc), thresh_tf) \/ scc.unfair_flag > scc.stable_flag
          THEN MODE_PROBE_RTT ELSE MODE_PROBE_BW

C26_Witness ==
    /\ AckDone /\ decided /\ ~divz /\ calls = 1
    /\ scc.current_mode = MODE_PROBE_BW
    /\ scc.stable_flag >= scc.unfair_flag
    /\ scc.lt_last_lost = Z

\* C27: an on_ack that takes a phase decision while neither rtt_check nor
\* ack_check holds and lt_last_lost is above (scc_lt_loss_thresh + 1) * 6 = 24
\* ends in DRAIN with pacing_gain 100, and no step enters DRAIN in any other
\* way.
C27_DrainOverride ==
    [][LET override ==
               /\ op' = "on_ack" /\ decided'
               /\ ~rtt_check(scc') /\ ~ack_check(scc')
               /\ Gt(scc'.lt_last_lost, N((scc_lt_loss_thresh + 1) * 6))
       IN  /\ override /\ ~divz'
              => /\ scc'.current_mode = MODE_DRAIN_PROBE
                 /\ scc'.pacing_gain = N(100)
           /\ scc'.current_mode = MODE_DRAIN_PROBE /\ scc.current_mode # MODE_DRAIN_PROBE
              /\ ~divz'
              => override]_vars

\* A phase decision has moved the connection from another mode into DRAIN,
\* with pacing_gain 100.
C27_Witness ==
    /\ AckDone /\ decided /\ ~divz
    /\ scc.current_mode = MODE_DRAIN_PROBE
    /\ scc.pacing_gain = N(100)
    /\ Gt(scc.lt_last_lost, N(24))
    /\ decisions = 1

C29_ActivationWindow ==
    [][LET losses == \/ op' = "set_state"
                     \/ op' = "on_ack" /\ Profiles[prof'].losses
           sampled == \/ op' = "set_state"
                      \/ /\ op' = "on_ack" /\ scc'.round_start
                         /\ Profiles[prof'].delivered >= 0
                         /\ Profiles[prof'].interval_us > 0
       IN  /\ ~scc.lt_use_bw /\ scc'.lt_use_bw
              => /\ losses
                 /\ scc'.lt_rtt_cnt >= bbr_lt_intvl_min_rtts
                 /\ scc'.lt_rtt_cnt <= 4 * bbr_lt_intvl_min_rtts
                 /\ scc.lt_bw # Z
           /\ scc.lt_is_sampling /\ ~scc.lt_use_bw /\ ~oops' /\ sampled
              /\ scc.lt_rtt_cnt = 4 * bbr_lt_intvl_min_rtts
              => /\ ~scc'.lt_use_bw /\ ~scc'.lt_is_sampling
                 /\ scc'.lt_bw = Z /\ scc'.lt_rtt_cnt = 0]_vars

\* The detector has switched to the long-term bandwidth on the 8th ACK of a
\* lossy path, at the end of its second sampling interval of 4 round trips.
C29_Witness ==
    /\ AckDone /\ calls = 2 * bbr_lt_intvl_min_rtts /\ Profiles[prof].losses
    /\ scc.lt_use_bw /\ scc.lt_rtt_cnt = bbr_lt_intvl_min_rtts

\* C30: rtt_epoch never exceeds 2^15 = 32768.
C30_RttEpochCapped == scc.rtt_epoch <= 2^15

\* C31: rtt_epoch grows only at the end of a streak of on_ack calls in which
\* check_high_rtt held: the call that raises rtt_epoch is the last of the
\* streak, so check_high_rtt holds in it, on the round-trip times the call
\* has recorded and the rtt_epoch it started with.
C31_GrowthEndsHighRttStreak ==
    [][op' = "on_ack" /\ ~oops' /\ scc'.rtt_epoch # scc.rtt_epoch
          => check_high_rtt([scc' EXCEPT !.rtt_epoch = scc.rtt_epoch])]_vars

\* The window spline_cwnd_send writes when next_cwnd has chosen x.
Sent(x) ==
    MinW(U32(Add(MaxW(x, SCC_MIN_SND_CWND), Profiles[prof].acked_sacked)),
         tp.snd_cwnd_clamp)

\* The BDP target of spline_cwnd_send, from the state the call leaves.
TargetCwnd == scc_bdp(scc, scc_bw(scc), scc.cwnd_gain)

SmoothedCwnd == Shr(U32(Mul(U32(Add(TargetCwnd, scc.curr_cwnd)), N(7))), 4)

\* C32: after an on_ack with loss_cnt <= 5 the host cwnd is the one made from
\* max(target_cwnd, curr_cwnd) and is at least min(scc_bdp(bw, cwnd_gain),
\* snd_cwnd_clamp); the window made from (target + computed) * 7 / 16 is
\* written only with loss_cnt > 5 and ((unfair_flag > 2000 and stable_flag <
\* 300) or unfair_flag > stable_flag + 500), and the one made from the
\* computed cwnd alone only with tf < thresh_tf, start_phase false and
\* loss_cnt > 50.
C32_FinalFusion ==
    AckDone /\ calls > 0 /\ ~divz =>
        LET smooth == /\ scc.loss_cnt > 5
                      /\ \/ scc.unfair_flag > 2000 /\ scc.stable_flag < 300
                         \/ scc.unfair_flag > scc.stable_flag + 500
            alone == /\ Lt(tf_of(scc), thresh_tf) /\ ~scc.start_phase
                     /\ scc.loss_cnt > 50
            both == Sent(MaxW(TargetCwnd, scc.curr_cwnd))
        IN  /\ scc.loss_cnt <= 5
               => /\ tp.snd_cwnd = both
                  /\ Ge(tp.snd_cwnd, MinW(TargetCwnd, tp.snd_cwnd_clamp))
            /\ tp.snd_cwnd # both /\ tp.snd_cwnd = Sent(SmoothedCwnd) => smooth
            /\ tp.snd_cwnd # both /\ tp.snd_cwnd = Sent(scc.curr_cwnd) => alone
            /\ tp.snd_cwnd \in {both, Sent(SmoothedCwnd), Sent(scc.curr_cwnd)}

\* An on_ack that ends with loss_cnt <= 5 while unfair_flag > 2000 and
\* stable_flag < 300: the flags ask for the smoothed window, which is smaller,
\* and the window written is the one made from max(target_cwnd, curr_cwnd).
C32_Witness ==
    /\ AckDone /\ calls > 0 /\ ~divz /\ scc.loss_cnt <= 5
    /\ scc.unfair_flag > 2000 /\ scc.stable_flag < 300
    /\ Lt(Sent(SmoothedCwnd), Sent(MaxW(TargetCwnd, scc.curr_cwnd)))
    /\ tp.snd_cwnd = Sent(MaxW(TargetCwnd, scc.curr_cwnd))
    /\ Gt(tp.snd_cwnd, MinW(TargetCwnd, tp.snd_cwnd_clamp))

\* C33: with loss_cnt at 10 or more before and after, a sample that reports
\* losses and unfair_flag more than 500 above stable_flag, the window an
\* on_ack writes to the host is at most 10^3 / 2^10 of the window the on_ack
\* of the round before wrote.
C33_LossBackoffShrinks ==
    [][/\ op = "on_ack" /\ calls > 0 /\ op' = "on_ack" /\ ~oops' /\ ~divz'
       /\ scc.loss_cnt >= 10 /\ scc'.loss_cnt >= 10
       /\ Profiles[prof'].losses /\ scc'.round_start
       /\ scc'.unfair_flag > scc'.stable_flag + 500
       => Le(Mul(tp'.snd_cwnd, N(2^10)), Mul(tp.snd_cwnd, N(10^3)))]_vars

\* C34: set_state(TCP_CA_Loss) leaves the state block as one step of the
\* long-term sampler leaves it when run with prev_ca_state = TCP_CA_Loss,
\* round_start set and a sample with losses that is not app-limited;
\* set_state with another new state leaves the state block unchanged; and
\* neither writes to the host socket.
C34_SetStateEffect ==
    [][\A new_state \in {TCP_CA_Recovery, TCP_CA_Loss} :
          SetState(new_state)
          => /\ tp' = tp
             /\ scc' = IF new_state = TCP_CA_Loss
                       THEN scc_lt_bw_sampling(
                                [scc EXCEPT !.prev_ca_state = TCP_CA_Loss,
                                            !.round_start = TRUE],
                                tp, TRUE, FALSE)
                       ELSE scc]_vars

\* set_state(TCP_CA_Loss) on a connection whose detector was idle: the
\* sampler has started an interval and counted its first round.
C34_Witness ==
    /\ op = "set_state" /\ ~oops
    /\ scc.prev_ca_state = TCP_CA_Loss /\ scc.round_start
    /\ scc.lt_is_sampling /\ scc.lt_rtt_cnt = 1

\* C35: after cwnd_event(TX_START) on an app-limited host in PROBE_BW the
\* installed pacing rate equals bbr_bw_to_pacing_rate(scc_bw, BBR_UNIT),
\* whatever the rate was before.
C35_TxStartResetsPacing ==
    [][EvEvent(TRUE, TRUE) /\ scc.current_mode = MODE_PROBE_BW /\ ~divz'
          => tp'.sk_pacing_rate = bbr_bw_to_pacing_rate(tp', scc_bw(scc), BBR_UNIT)]_vars

\* C36: while rtt_epoch has its initial value 4000, check_high_rtt is false
\* after every on_ack and stable_flag is 0.
C36_NoStableFlagAtFirstEpoch ==
    op # "init" /\ scc.rtt_epoch = 4000 => ~check_high_rtt(scc) /\ scc.stable_flag = 0

\* An on_ack with the round-trip time inside the band of rtt_check and of
\* ack_check's byte counts, at rtt_epoch = 4000: only check_high_rtt keeps
\* stable_check from counting.
C36_Witness ==
    /\ AckDone /\ scc.rtt_epoch = 4000 /\ ack_check(scc) /\ rtt_check(scc)
    /\ Lt(U32(Add(scc.last_rtt, N(1000))), scc.curr_rtt)
    /\ scc.stable_flag = 0

\* C37: START is left exactly once: the mode leaves START only in an on_ack
\* that takes a phase decision, after a decision it is PROBE_BW, PROBE_RTT or
\* DRAIN, and no on_ack, set_state, cwnd_event, undo_cwnd or ssthresh brings
\* a connection that has left START back to it.
C37_StartLeftOnce ==
    [][/\ scc.current_mode = MODE_START_PROBE /\ scc'.current_mode # MODE_START_PROBE
          => op' = "on_ack" /\ decided'
       /\ decided' => scc'.current_mode \in {MODE_PROBE_BW, MODE_PROBE_RTT, MODE_DRAIN_PROBE}
       /\ scc.current_mode # MODE_START_PROBE
          => scc'.current_mode \in {MODE_PROBE_BW, MODE_PROBE_RTT, MODE_DRAIN_PROBE}]_vars

\* A host call other than on_ack after the first phase decision.
C37_Witness ==
    /\ decisions >= 1 /\ ~oops
    /\ op \in {"set_state", "cwnd_event", "undo_cwnd", "ssthresh"}
    /\ scc.current_mode # MODE_START_PROBE

\* C38: at the end of every on_ack epp < EPOCH_ROUND: epp counts the on_ack
\* calls since init or the last phase decision without skipping EPOCH_ROUND or
\* wrapping, EPOCH_ROUND is at most 40 before the first decision and at most
\* 31 after it, so the first decision comes within 40 on_ack calls of init and
\* later decisions are at most 31 on_ack calls apart.
C38_EppBelowEpochRound ==
    [][op' = "on_ack" /\ ~oops'
          => /\ scc'.epp < scc'.EPOCH_ROUND
             /\ \/ scc'.epp = scc.epp + 1 /\ ~decided'
                \/ scc'.epp = 0 /\ decided' /\ scc.epp + 1 = scc.EPOCH_ROUND
             /\ scc'.EPOCH_ROUND <= IF decisions' = 0 THEN 40 ELSE 31
             /\ scc.EPOCH_ROUND <= IF decisions = 0 THEN 40 ELSE 31]_vars

\* The first decision on the 40th ACK and the second 31 ACKs later.
C38_Witness ==
    AckDone /\ decided /\ decisions = 2 /\ calls = 71 /\ scc.EPOCH_ROUND = 31

\* C39: an on_ack that leaves the connection in START raises the host cwnd by
\* at least SCC_MIN_SND_CWND over the cwnd the host had when it called, or to
\* snd_cwnd_clamp; unfair_flag is at most 40 in START, so next_cwnd does not
\* smooth.
C39_StartGrowsCwnd ==
    [][op' = "on_ack" /\ ~oops' /\ scc'.current_mode = MODE_START_PROBE
          => /\ Ge(tp'.snd_cwnd, MinW(Add(tp.snd_cwnd, SCC_MIN_SND_CWND), tp'.snd_cwnd_clamp))
             /\ scc'.unfair_flag <= 40
             /\ ~(scc'.unfair_flag > 2000 /\ scc'.stable_flag < 300)
             /\ ~(scc'.unfair_flag > scc'.stable_flag + 500)]_vars

\* Late in START on the lossy path: the loss count would let next_cwnd
\* smooth, the host cwnd is below the clamp.
C39_Witness ==
    /\ AckDone /\ scc.current_mode = MODE_START_PROBE /\ calls = 39
    /\ scc.loss_cnt > 5 /\ scc.unfair_flag > 30
    /\ Lt(tp.snd_cwnd, tp.snd_cwnd_clamp)

\* C40: one on_ack changes at most one of stable_flag and unfair_flag, also
\* when high_rtt_round changes rtt_epoch between fairness_check and
\* stable_check.
C40_OneFlagPerAck ==
    [][op' = "on_ack" /\ ~oops'
          => \/ scc'.unfair_flag = scc.unfair_flag
             \/ scc'.stable_flag = scc.stable_flag]_vars

\* The first ACK raised rtt_epoch from 4000 to 8000 and counted for
\* stable_flag: check_high_rtt was false for fairness_check and true for
\* stable_check.
C40_Witness ==
    /\ AckDone /\ calls = 1 /\ scc.rtt_epoch = 8000 /\ scc.high_round = 0
    /\ scc.stable_flag = 6 /\ scc.unfair_flag = 5
    /\ ~rtt_check([scc EXCEPT !.rtt_epoch = 4000])
    /\ ~check_high_rtt([scc EXCEPT !.rtt_epoch = 4000])

====
